---- MODULE Spec2Model ----
(***************************************************************************)
(* Model of the GraphQL chat backend with tiered subscription limits.     *)
(*                                                                         *)
(* The database tables are sets of rows.  Every service function and      *)
(* every resolver is an operator from a database state s (a record of the *)
(* tables) and the request's arguments to a record holding the database   *)
(* state it leaves behind and what it returns; each GraphQL operation is  *)
(* one action that commits the state its resolver leaves behind.          *)
(* Columns that no decision reads (title, description, price, timestamps, *)
(* names, passwords) are left out of the rows.                            *)
(***************************************************************************)
EXTENDS Integers, Sequences, FiniteSets, TLC

VARIABLES users, plans, subs, conversations, conv_seq, messages, inflight,
          tokens, outbox, now

vars == <<users, plans, subs, conversations, conv_seq, messages, inflight,
          tokens, outbox, now>>

(***************************************************************************)
(* Bounds of the model.                                                    *)
(***************************************************************************)
\* rows the subscription plan table may hold
MaxPlans == 2
\* conversation ids ever handed out
MaxConvs == 3
\* conversation ids ever handed out in the chat specification
MaxChatConvs == 2
\* rows the message table may hold
MaxMessages == 1
\* requests that may be in flight at once in the interleaved specification
NumProcs == 2
\* rows the user table may hold
MaxUsers == 3
\* hours the clock may reach
MaxTime == 2

(***************************************************************************)
(* Program constants.                                                      *)
(***************************************************************************)
\* get_default_plan: max_characters of the bootstrap plan
FreeMaxCharacters == 5
\* get_default_plan: max_conversations of the bootstrap plan
FreeMaxConversations == 3
\* PositiveIntegerField: the column's CHECK (value >= 0)
PositiveIntegerFieldMin == 0

(***************************************************************************)
(* Ids on the wire.  A graphene.ID and the user_id of a JWT payload are    *)
(* strings; here a string of characters is a sequence of one-character    *)
(* strings.  str() writes an id in decimal, the ORM's int() reads it back  *)
(* and raises ValueError on anything that is not a decimal number.         *)
(***************************************************************************)
Digits == <<"0", "1", "2", "3", "4", "5", "6", "7", "8", "9">>

IsDigit(c) == \E i \in 1..10 : Digits[i] = c

DigitValue(c) == (CHOOSE i \in 1..10 : Digits[i] = c) - 1

RECURSIVE str(_)
str(n) ==
    IF n < 10 THEN <<Digits[n + 1]>>
    ELSE Append(str(n \div 10), Digits[(n % 10) + 1])

RECURSIVE IntValue(_)
IntValue(t) ==
    IF Len(t) = 0 THEN 0
    ELSE 10 * IntValue(SubSeq(t, 1, Len(t) - 1)) + DigitValue(t[Len(t)])

\* int(t) of the id field's get_prep_value: ok = FALSE stands for ValueError
ParseId(t) ==
    IF Len(t) > 0 /\ \A i \in 1..Len(t) : IsDigit(t[i])
    THEN [ok |-> TRUE, value |-> IntValue(t)]
    ELSE [ok |-> FALSE, value |-> 0]

(***************************************************************************)
(* Tables.                                                                 *)
(***************************************************************************)
Max(S) == CHOOSE x \in S : \A y \in S : y <= x

\* the id an auto-increment key gives the next row of a table nothing is
\* deleted from
NextId(rows) == IF rows = {} THEN 1 ELSE Max({r.id : r \in rows}) + 1

Row(rows, id) == CHOOSE r \in rows : r.id = id

\* The database state as one value.
DB ==
    [users |-> users, plans |-> plans, subs |-> subs,
     conversations |-> conversations, conv_seq |-> conv_seq,
     messages |-> messages, tokens |-> tokens, outbox |-> outbox]

\* user.owned_conversations
owned_conversations(s, u) == {c \in s.conversations : c.owner = u}

\* user.subscription: the rows of the one-to-one relation for user u
subscription(s, u) == {x \in s.subs : x.user = u}

(***************************************************************************)
(* subscriptions/models.py and subscriptions/services.py                   *)
(***************************************************************************)
\* SubscriptionPlan.objects.create: the row is stored unless a limit
\* column breaks its CHECK (value >= 0).  name carries no unique constraint.
SubscriptionPlan_create(s, name, max_characters, max_conversations, is_active, is_default) ==
    IF max_characters < PositiveIntegerFieldMin
       \/ max_conversations < PositiveIntegerFieldMin
    THEN [s |-> s, exc |-> "IntegrityError", plan |-> 0]
    ELSE LET new == [id |-> NextId(s.plans), name |-> name,
                     max_characters |-> max_characters,
                     max_conversations |-> max_conversations,
                     is_active |-> is_active, is_default |-> is_default]
         IN [s |-> [s EXCEPT !.plans = @ \cup {new}], exc |-> "", plan |-> new.id]

\* mutant: a plain foreign key, with no unique constraint on user
UserSubscription_create_not_unique(s, u, plan) ==
    LET new == [id |-> NextId(s.subs), user |-> u, plan |-> plan]
    IN [s |-> [s EXCEPT !.subs = @ \cup {new}], exc |-> "", sub |-> new.id]

\* mutant: an insert that meets the user's row returns that row
UserSubscription_create_or_get(s, u, plan) ==
    IF subscription(s, u) # {}
    THEN [s |-> s, exc |-> "", sub |-> (CHOOSE x \in subscription(s, u) : TRUE).id]
    ELSE LET new == [id |-> NextId(s.subs), user |-> u, plan |-> plan]
         IN [s |-> [s EXCEPT !.subs = @ \cup {new}], exc |-> "", sub |-> new.id]

\* UserSubscription.objects.create: the one-to-one field makes user unique
UserSubscription_create(s, u, plan) ==
    IF subscription(s, u) # {}
    THEN [s |-> s, exc |-> "IntegrityError", sub |-> 0]
    ELSE LET new == [id |-> NextId(s.subs), user |-> u, plan |-> plan]
         IN [s |-> [s EXCEPT !.subs = @ \cup {new}], exc |-> "", sub |-> new.id]

\* mutant: the first plan of the table, whatever its is_default flag
first_plan_of_any_flag(s) ==
    IF s.plans = {} THEN 0
    ELSE (CHOOSE p \in s.plans : \A q \in s.plans : p.id <= q.id).id

\* filter(is_default=True).first(): the default plan of lowest id, 0 for None
first_default_plan(s) ==
    LET d == {p \in s.plans : p.is_default}
    IN IF d = {} THEN 0
       ELSE (CHOOSE p \in d : \A q \in d : p.id <= q.id).id

get_default_plan(s) ==
    LET default_plan == first_default_plan(s)
    IN IF default_plan # 0
       THEN [s |-> s, exc |-> "", plan |-> default_plan]
       ELSE SubscriptionPlan_create(s, "Free", FreeMaxCharacters,
                                    FreeMaxConversations, TRUE, TRUE)

\* Returns the id of the user's subscription row (sub), creating the row and,
\* through get_default_plan, the bootstrap plan when they are missing.
get_or_create_user_subscription(s, u) ==
    LET mine == subscription(s, u)
    IN IF mine # {}
       THEN [s |-> s, exc |-> "", sub |-> (CHOOSE x \in mine : TRUE).id]
       ELSE LET d == get_default_plan(s)
            IN IF d.exc # "" THEN [s |-> d.s, exc |-> d.exc, sub |-> 0]
               ELSE UserSubscription_create(d.s, u, d.plan)

\* subscription.plan of the subscription row sub
plan_of(s, sub) == Row(s.plans, Row(s.subs, sub).plan)

\* mutant: a message that fills the limit exactly is denied
check_message_limits_strict(s, u, message_length) ==
    LET g == get_or_create_user_subscription(s, u)
    IN IF g.exc # ""
       THEN [s |-> g.s, exc |-> g.exc, allowed |-> FALSE, remaining |-> 0]
       ELSE LET remaining == plan_of(g.s, g.sub).max_characters - message_length
            IN IF remaining > 0
               THEN [s |-> g.s, exc |-> "", allowed |-> TRUE, remaining |-> remaining]
               ELSE [s |-> g.s, exc |-> "", allowed |-> FALSE, remaining |-> remaining]

\* mutant: a denied check reports 0 remaining instead of the overage
check_message_limits_clamped(s, u, message_length) ==
    LET g == get_or_create_user_subscription(s, u)
    IN IF g.exc # ""
       THEN [s |-> g.s, exc |-> g.exc, allowed |-> FALSE, remaining |-> 0]
       ELSE LET remaining == plan_of(g.s, g.sub).max_characters - message_length
            IN IF remaining >= 0
               THEN [s |-> g.s, exc |-> "", allowed |-> TRUE, remaining |-> remaining]
               ELSE [s |-> g.s, exc |-> "", allowed |-> FALSE, remaining |-> 0]

check_message_limits(s, u, message_length) ==
    LET g == get_or_create_user_subscription(s, u)
    IN IF g.exc # ""
       THEN [s |-> g.s, exc |-> g.exc, allowed |-> FALSE, remaining |-> 0]
       ELSE LET remaining == plan_of(g.s, g.sub).max_characters - message_length
            IN IF remaining >= 0
               THEN [s |-> g.s, exc |-> "", allowed |-> TRUE, remaining |-> remaining]
               ELSE [s |-> g.s, exc |-> "", allowed |-> FALSE, remaining |-> remaining]

\* mutant: the check is passed with one conversation too many
check_conversation_limits_one_more(s, u) ==
    LET g == get_or_create_user_subscription(s, u)
    IN IF g.exc # ""
       THEN [s |-> g.s, exc |-> g.exc, allowed |-> FALSE, remaining |-> 0]
       ELSE LET conversation_count == Cardinality(owned_conversations(g.s, u))
                remaining == plan_of(g.s, g.sub).max_conversations
                               - (conversation_count + 1)
            IN IF remaining >= -1
               THEN [s |-> g.s, exc |-> "", allowed |-> TRUE, remaining |-> remaining]
               ELSE [s |-> g.s, exc |-> "", allowed |-> FALSE, remaining |-> remaining]

\* mutant: the conversation about to be created is not counted
check_conversation_limits_no_increment(s, u) ==
    LET g == get_or_create_user_subscription(s, u)
    IN IF g.exc # ""
       THEN [s |-> g.s, exc |-> g.exc, allowed |-> FALSE, remaining |-> 0]
       ELSE LET conversation_count == Cardinality(owned_conversations(g.s, u))
                remaining == plan_of(g.s, g.sub).max_conversations - conversation_count
            IN IF remaining >= 0
               THEN [s |-> g.s, exc |-> "", allowed |-> TRUE, remaining |-> remaining]
               ELSE [s |-> g.s, exc |-> "", allowed |-> FALSE, remaining |-> remaining]

\* mutant: a check that allows reserves the conversation's id
check_conversation_limits_reserving(s, u) ==
    LET g == get_or_create_user_subscription(s, u)
    IN IF g.exc # ""
       THEN [s |-> g.s, exc |-> g.exc, allowed |-> FALSE, remaining |-> 0]
       ELSE LET conversation_count == Cardinality(owned_conversations(g.s, u))
                remaining == plan_of(g.s, g.sub).max_conversations
                               - (conversation_count + 1)
            IN IF remaining >= 0
               THEN [s |-> [g.s EXCEPT !.conv_seq = @ + 1], exc |-> "",
                     allowed |-> TRUE, remaining |-> remaining]
               ELSE [s |-> g.s, exc |-> "", allowed |-> FALSE, remaining |-> remaining]

\* mutant: the conversations the user is a member of are counted
check_conversation_limits_counting_memberships(s, u) ==
    LET g == get_or_create_user_subscription(s, u)
    IN IF g.exc # ""
       THEN [s |-> g.s, exc |-> g.exc, allowed |-> FALSE, remaining |-> 0]
       ELSE LET conversation_count ==
                    Cardinality({c \in g.s.conversations : u \in c.members})
                remaining == plan_of(g.s, g.sub).max_conversations
                               - (conversation_count + 1)
            IN IF remaining >= 0
               THEN [s |-> g.s, exc |-> "", allowed |-> TRUE, remaining |-> remaining]
               ELSE [s |-> g.s, exc |-> "", allowed |-> FALSE, remaining |-> remaining]

check_conversation_limits(s, u) ==
    LET g == get_or_create_user_subscription(s, u)
    IN IF g.exc # ""
       THEN [s |-> g.s, exc |-> g.exc, allowed |-> FALSE, remaining |-> 0]
       ELSE LET conversation_count == Cardinality(owned_conversations(g.s, u))
                remaining == plan_of(g.s, g.sub).max_conversations
                               - (conversation_count + 1)
            IN IF remaining >= 0
               THEN [s |-> g.s, exc |-> "", allowed |-> TRUE, remaining |-> remaining]
               ELSE [s |-> g.s, exc |-> "", allowed |-> FALSE, remaining |-> remaining]

\* SubscriptionPlan.objects.get(id=plan_id, is_active=True): int(plan_id)
\* raises ValueError, no matching row raises DoesNotExist
get_active_plan(s, plan_id) ==
    LET n == ParseId(plan_id)
    IN IF ~n.ok THEN [exc |-> "ValueError", plan |-> 0]
       ELSE IF \E p \in s.plans : p.id = n.value /\ p.is_active
            THEN [exc |-> "", plan |-> n.value]
            ELSE [exc |-> "DoesNotExist", plan |-> 0]

\* mutant: the new plan is set on the object and never saved
change_user_plan_not_saved(s, u, plan_id) ==
    LET p == get_active_plan(s, plan_id)
    IN IF p.exc = "DoesNotExist" THEN [s |-> s, exc |-> "", ret |-> FALSE]
       ELSE IF p.exc # "" THEN [s |-> s, exc |-> p.exc, ret |-> FALSE]
       ELSE LET g == get_or_create_user_subscription(s, u)
            IN IF g.exc # "" THEN [s |-> g.s, exc |-> g.exc, ret |-> FALSE]
               ELSE [s |-> g.s, exc |-> "", ret |-> TRUE]

\* mutant: a plan that allows fewer conversations than the user owns is
\* declined
change_user_plan_within_usage(s, u, plan_id) ==
    LET p == get_active_plan(s, plan_id)
    IN IF p.exc = "DoesNotExist" THEN [s |-> s, exc |-> "", ret |-> FALSE]
       ELSE IF p.exc # "" THEN [s |-> s, exc |-> p.exc, ret |-> FALSE]
       ELSE IF Row(s.plans, p.plan).max_conversations
                 < Cardinality(owned_conversations(s, u))
       THEN [s |-> s, exc |-> "", ret |-> FALSE]
       ELSE LET g == get_or_create_user_subscription(s, u)
            IN IF g.exc # "" THEN [s |-> g.s, exc |-> g.exc, ret |-> FALSE]
               ELSE [s |-> [g.s EXCEPT !.subs =
                              {IF x.id = g.sub THEN [x EXCEPT !.plan = p.plan] ELSE x
                                 : x \in g.s.subs}],
                     exc |-> "", ret |-> TRUE]

\* mutant: the plan is written to every subscription row
change_user_plan_of_everyone(s, u, plan_id) ==
    LET p == get_active_plan(s, plan_id)
    IN IF p.exc = "DoesNotExist" THEN [s |-> s, exc |-> "", ret |-> FALSE]
       ELSE IF p.exc # "" THEN [s |-> s, exc |-> p.exc, ret |-> FALSE]
       ELSE LET g == get_or_create_user_subscription(s, u)
            IN IF g.exc # "" THEN [s |-> g.s, exc |-> g.exc, ret |-> FALSE]
               ELSE [s |-> [g.s EXCEPT !.subs = {[x EXCEPT !.plan = p.plan]
                                                   : x \in g.s.subs}],
                     exc |-> "", ret |-> TRUE]

\* ret is the returned bool; only ObjectDoesNotExist is caught, every other
\* exception (exc) leaves the function
change_user_plan(s, u, plan_id) ==
    LET p == get_active_plan(s, plan_id)
    IN IF p.exc = "DoesNotExist" THEN [s |-> s, exc |-> "", ret |-> FALSE]
       ELSE IF p.exc # "" THEN [s |-> s, exc |-> p.exc, ret |-> FALSE]
       ELSE LET g == get_or_create_user_subscription(s, u)
            IN IF g.exc # "" THEN [s |-> g.s, exc |-> g.exc, ret |-> FALSE]
               ELSE [s |-> [g.s EXCEPT !.subs =
                              {IF x.id = g.sub THEN [x EXCEPT !.plan = p.plan] ELSE x
                                 : x \in g.s.subs}],
                     exc |-> "", ret |-> TRUE]

(***************************************************************************)
(* utils/jwt_utils.py.  A request's credential is what its Authorization   *)
(* header carries: nothing, a Bearer string that is no token of this       *)
(* server, or a signed access or refresh token with the user_id string of  *)
(* its payload and whether its exp has passed.                             *)
(***************************************************************************)
NoHeader == [kind |-> "none", user_id |-> <<>>, expired |-> FALSE]

generate_access_token(u) == [kind |-> "access", user_id |-> str(u), expired |-> FALSE]

generate_refresh_token(u) == [kind |-> "refresh", user_id |-> str(u), expired |-> FALSE]

\* the payload, or the GraphQLError raised
decode_token(token) ==
    IF token.kind = "garbage" THEN [error |-> "Invalid token", payload |-> token]
    ELSE IF token.expired THEN [error |-> "Token has expired", payload |-> token]
    ELSE [error |-> "", payload |-> token]

get_user_from_payload(s, payload) ==
    IF payload.user_id = <<>>
    THEN [error |-> "Invalid token: missing user_id", user |-> 0]
    ELSE LET n == ParseId(payload.user_id)
         IN IF ~n.ok THEN [error |-> "ValueError", user |-> 0]
            ELSE IF \E x \in s.users : x.id = n.value
                 THEN [error |-> "", user |-> n.value]
                 ELSE [error |-> "User not found", user |-> 0]

\* mutant: the is_active check is missing
get_authenticated_user_inactive_too(s, cred) ==
    IF cred.kind = "none"
    THEN [error |-> "Authentication required", user |-> 0]
    ELSE LET d == decode_token(cred)
         IN IF d.error # "" THEN [error |-> d.error, user |-> 0]
            ELSE IF d.payload.kind = "refresh"
            THEN [error |-> "Cannot use refresh token for authentication", user |-> 0]
            ELSE get_user_from_payload(s, d.payload)

get_authenticated_user(s, cred) ==
    IF cred.kind = "none"
    THEN [error |-> "Authentication required", user |-> 0]
    ELSE LET d == decode_token(cred)
         IN IF d.error # "" THEN [error |-> d.error, user |-> 0]
            ELSE IF d.payload.kind = "refresh"
            THEN [error |-> "Cannot use refresh token for authentication", user |-> 0]
            ELSE LET g == get_user_from_payload(s, d.payload)
                 IN IF g.error # "" THEN g
                    ELSE IF ~Row(s.users, g.user).is_active
                    THEN [error |-> "Account is not active. Please verify your email first.",
                          user |-> 0]
                    ELSE g

(***************************************************************************)
(* subscriptions/schema.py.  A resolver or mutation returns the database   *)
(* state it leaves (s), the GraphQL error it raised (error, "" for none)   *)
(* and its payload.                                                        *)
(***************************************************************************)
\* Query.resolve_my_subscription: sub is the subscription row's id
resolve_my_subscription(s, cred) ==
    LET a == get_authenticated_user(s, cred)
    IN IF a.error # "" THEN [s |-> s, error |-> a.error, sub |-> 0]
       ELSE LET g == get_or_create_user_subscription(s, a.user)
            IN [s |-> g.s, error |-> g.exc, sub |-> g.sub]

\* mutant: the conversations that can still be created, without the - 1
resolve_conversations_remaining_creatable(s, cred) ==
    LET a == get_authenticated_user(s, cred)
    IN IF a.error # "" THEN [s |-> s, error |-> a.error, remaining |-> 0]
       ELSE LET c == check_conversation_limits(s, a.user)
            IN [s |-> c.s, error |-> c.exc, remaining |-> c.remaining + 1]

\* UserSubscriptionType.resolve_conversations_remaining
resolve_conversations_remaining(s, cred) ==
    LET a == get_authenticated_user(s, cred)
    IN IF a.error # "" THEN [s |-> s, error |-> a.error, remaining |-> 0]
       ELSE LET c == check_conversation_limits(s, a.user)
            IN [s |-> c.s, error |-> c.exc, remaining |-> c.remaining]

\* mutant: a plan that subscriptions still reference stays listed
resolve_subscription_plans_in_use(s) ==
    {p \in s.plans : p.is_active \/ \E x \in s.subs : x.plan = p.id}

\* Query.resolve_subscription_plans
resolve_subscription_plans(s) == {p \in s.plans : p.is_active}

\* mutant: only the active plans are searched for the name
plan_name_exists_among_active(s, name) ==
    \E p \in s.plans : p.name = name /\ p.is_active

\* SubscriptionPlan.objects.filter(name=name).exists()
plan_name_exists(s, name) == \E p \in s.plans : p.name = name

\* mutant: the is_staff check is missing
CreateSubscriptionPlan_mutate_by_anyone(s, cred, name, max_characters, max_conversations, is_active) ==
    LET a == get_authenticated_user(s, cred)
    IN IF a.error # ""
       THEN [s |-> s, error |-> a.error, success |-> FALSE, message |-> "", plan |-> 0]
       ELSE IF plan_name_exists(s, name)
       THEN [s |-> s, error |-> "", success |-> FALSE,
             message |-> "A subscription plan with the name already exists", plan |-> 0]
       ELSE LET c == SubscriptionPlan_create(s, name, max_characters,
                                             max_conversations, is_active, FALSE)
            IN IF c.exc # ""
               THEN [s |-> c.s, error |-> "", success |-> FALSE,
                     message |-> "Error creating subscription plan", plan |-> 0]
               ELSE [s |-> c.s, error |-> "", success |-> TRUE,
                     message |-> "Subscription plan created successfully",
                     plan |-> c.plan]

CreateSubscriptionPlan_mutate(s, cred, name, max_characters, max_conversations, is_active) ==
    LET a == get_authenticated_user(s, cred)
    IN IF a.error # ""
       THEN [s |-> s, error |-> a.error, success |-> FALSE, message |-> "", plan |-> 0]
       ELSE IF ~Row(s.users, a.user).is_staff
       THEN [s |-> s,
             error |-> "Permission denied. Only administrators can create subscription plans.",
             success |-> FALSE, message |-> "", plan |-> 0]
       ELSE IF plan_name_exists(s, name)
       THEN [s |-> s, error |-> "", success |-> FALSE,
             message |-> "A subscription plan with the name already exists", plan |-> 0]
       ELSE LET c == SubscriptionPlan_create(s, name, max_characters,
                                             max_conversations, is_active, FALSE)
            IN IF c.exc # ""
               THEN [s |-> c.s, error |-> "", success |-> FALSE,
                     message |-> "Error creating subscription plan", plan |-> 0]
               ELSE [s |-> c.s, error |-> "", success |-> TRUE,
                     message |-> "Subscription plan created successfully",
                     plan |-> c.plan]

UpgradeSubscription_mutate(s, cred, plan_id) ==
    LET a == get_authenticated_user(s, cred)
    IN IF a.error # ""
       THEN [s |-> s, error |-> a.error, success |-> FALSE, message |-> "", sub |-> 0]
       ELSE LET c == change_user_plan(s, a.user, plan_id)
            IN IF c.exc # ""
               THEN [s |-> c.s, error |-> "", success |-> FALSE,
                     message |-> "Error upgrading subscription", sub |-> 0]
               ELSE IF ~c.ret
               THEN [s |-> c.s, error |-> "", success |-> FALSE,
                     message |-> "Invalid plan ID or plan is not active", sub |-> 0]
               ELSE LET g == get_or_create_user_subscription(c.s, a.user)
                    IN IF g.exc # ""
                       THEN [s |-> g.s, error |-> "", success |-> FALSE,
                             message |-> "Error upgrading subscription", sub |-> 0]
                       ELSE [s |-> g.s, error |-> "", success |-> TRUE,
                             message |-> "Successfully upgraded", sub |-> g.sub]

\* subscriptions/admin.py: SubscriptionPlan is registered with the admin
\* site, whose change form saves the plan's fields; here is_active of plan
\* number plan is set
SubscriptionAdmin_change(s, plan, is_active) ==
    [s EXCEPT !.plans = {IF p.id = plan THEN [p EXCEPT !.is_active = is_active]
                         ELSE p : p \in s.plans}]

(***************************************************************************)
(* chat/schema.py                                                          *)
(***************************************************************************)
\* Conversation.objects.get(id=conversation_id)
get_conversation(s, conversation_id) ==
    LET n == ParseId(conversation_id)
    IN IF ~n.ok THEN [exc |-> "ValueError", conversation |-> 0]
       ELSE IF \E c \in s.conversations : c.id = n.value
            THEN [exc |-> "", conversation |-> n.value]
            ELSE [exc |-> "DoesNotExist", conversation |-> 0]

\* Query.resolve_conversations: Conversation.objects.filter(members=user),
\* as the set of the conversations' ids
resolve_conversations(s, cred) ==
    LET a == get_authenticated_user(s, cred)
    IN IF a.error # "" THEN [s |-> s, error |-> a.error, conversations |-> {}]
       ELSE [s |-> s, error |-> "",
             conversations |-> {c.id : c \in {d \in s.conversations :
                                                 a.user \in d.members}}]

\* Query.resolve_conversation: conversation is the id of the row returned,
\* 0 for none
resolve_conversation(s, cred, id) ==
    LET a == get_authenticated_user(s, cred)
    IN IF a.error # "" THEN [s |-> s, error |-> a.error, conversation |-> 0]
       ELSE LET g == get_conversation(s, id)
            IN IF g.exc = "DoesNotExist"
               THEN [s |-> s, error |-> "Conversation not found", conversation |-> 0]
               ELSE IF g.exc # "" THEN [s |-> s, error |-> g.exc, conversation |-> 0]
               ELSE IF a.user \notin Row(s.conversations, g.conversation).members
               THEN [s |-> s, error |-> "Access denied", conversation |-> 0]
               ELSE [s |-> s, error |-> "", conversation |-> g.conversation]

\* Query.resolve_messages: the rows of the conversation's messages
resolve_messages(s, cred, conversation_id) ==
    LET a == get_authenticated_user(s, cred)
    IN IF a.error # "" THEN [s |-> s, error |-> a.error, messages |-> {}]
       ELSE LET g == get_conversation(s, conversation_id)
            IN IF g.exc = "DoesNotExist"
               THEN [s |-> s, error |-> "Conversation not found", messages |-> {}]
               ELSE IF g.exc # "" THEN [s |-> s, error |-> g.exc, messages |-> {}]
               ELSE IF a.user \notin Row(s.conversations, g.conversation).members
               THEN [s |-> s, error |-> "Access denied", messages |-> {}]
               ELSE [s |-> s, error |-> "",
                     messages |-> {m \in s.messages : m.conversation = g.conversation}]

\* The loop over member_ids of CreateConversation.mutate: an id of an
\* existing user is added, User.DoesNotExist is passed over, and the
\* ValueError of an id that is no number ends the loop and the mutation
\* with the members added so far.
RECURSIVE add_members(_, _, _)
add_members(s, members, member_ids) ==
    IF member_ids = <<>> THEN [exc |-> "", members |-> members]
    ELSE LET n == ParseId(Head(member_ids))
         IN IF ~n.ok THEN [exc |-> "ValueError", members |-> members]
            ELSE add_members(s,
                             IF \E x \in s.users : x.id = n.value
                             THEN members \cup {n.value} ELSE members,
                             Tail(member_ids))

\* mutant: the warnings come one conversation early
alert_message_early(remaining) ==
    IF remaining = 1 THEN "Warning: You have reached your conversation limit."
    ELSE IF remaining = 2 THEN "Warning: You have only one conversation remaining."
    ELSE ""

\* the alert of a created conversation, "" for None
alert_message(remaining) ==
    IF remaining = 0 THEN "Warning: You have reached your conversation limit."
    ELSE IF remaining = 1 THEN "Warning: You have only one conversation remaining."
    ELSE ""

\* mutant: the owner is not added to the members
CreateConversation_mutate_owner_not_added(s, cred, member_ids) ==
    LET a == get_authenticated_user(s, cred)
    IN IF a.error # ""
       THEN [s |-> s, error |-> a.error, conversation |-> 0, alert |-> ""]
       ELSE LET c == check_conversation_limits(s, a.user)
            IN IF c.exc # ""
               THEN [s |-> c.s, error |-> c.exc, conversation |-> 0, alert |-> ""]
               ELSE IF ~c.allowed
               THEN [s |-> c.s,
                     error |-> "You have reached your maximum conversation limit.",
                     conversation |-> 0, alert |-> ""]
               ELSE LET id == c.s.conv_seq + 1
                        m == add_members(c.s, {}, member_ids)
                        new == [id |-> id, owner |-> a.user, members |-> m.members]
                        after == [c.s EXCEPT !.conversations = @ \cup {new},
                                             !.conv_seq = id]
                    IN IF m.exc # ""
                       THEN [s |-> after, error |-> m.exc, conversation |-> 0,
                             alert |-> ""]
                       ELSE [s |-> after, error |-> "", conversation |-> id,
                             alert |-> alert_message(c.remaining)]

CreateConversation_mutate(s, cred, member_ids) ==
    LET a == get_authenticated_user(s, cred)
    IN IF a.error # ""
       THEN [s |-> s, error |-> a.error, conversation |-> 0, alert |-> ""]
       ELSE LET c == check_conversation_limits(s, a.user)
            IN IF c.exc # ""
               THEN [s |-> c.s, error |-> c.exc, conversation |-> 0, alert |-> ""]
               ELSE IF ~c.allowed
               THEN [s |-> c.s,
                     error |-> "You have reached your maximum conversation limit.",
                     conversation |-> 0, alert |-> ""]
               ELSE LET id == c.s.conv_seq + 1
                        m == add_members(c.s, {a.user}, member_ids)
                        new == [id |-> id, owner |-> a.user, members |-> m.members]
                        after == [c.s EXCEPT !.conversations = @ \cup {new},
                                             !.conv_seq = id]
                    IN IF m.exc # ""
                       THEN [s |-> after, error |-> m.exc, conversation |-> 0,
                             alert |-> ""]
                       ELSE [s |-> after, error |-> "", conversation |-> id,
                             alert |-> alert_message(c.remaining)]

\* mutant: the insert counts the owner's conversations again and is refused
\* at the limit
Conversation_create_rechecked(s, u, member_ids) ==
    IF ~check_conversation_limits(s, u).allowed
    THEN [s |-> s, exc |-> "IntegrityError", conversation |-> 0]
    ELSE LET id == s.conv_seq + 1
             m == add_members(s, {u}, member_ids)
             new == [id |-> id, owner |-> u, members |-> m.members]
         IN [s |-> [s EXCEPT !.conversations = @ \cup {new}, !.conv_seq = id],
             exc |-> m.exc, conversation |-> id]

\* CreateConversation.mutate after the limit check: Conversation.objects
\* .create(title=title, owner=user), members.add(user) and the loop over
\* member_ids.  Nothing is read of the owner's conversations.
Conversation_create(s, u, member_ids) ==
    LET id == s.conv_seq + 1
        m == add_members(s, {u}, member_ids)
        new == [id |-> id, owner |-> u, members |-> m.members]
    IN [s |-> [s EXCEPT !.conversations = @ \cup {new}, !.conv_seq = id],
        exc |-> m.exc, conversation |-> id]

SendMessage_mutate(s, cred, conversation_id, text) ==
    LET a == get_authenticated_user(s, cred)
    IN IF a.error # "" THEN [s |-> s, error |-> a.error, message |-> 0]
       ELSE LET message_length == Len(text)
                c == check_message_limits(s, a.user, message_length)
            IN IF c.exc # "" THEN [s |-> c.s, error |-> c.exc, message |-> 0]
               ELSE IF ~c.allowed
               THEN [s |-> c.s, error |-> "Your message exceeds your character limit.",
                     message |-> 0]
               ELSE LET g == get_conversation(c.s, conversation_id)
                    IN IF g.exc = "DoesNotExist"
                       THEN [s |-> c.s, error |-> "Conversation not found", message |-> 0]
                       ELSE IF g.exc # ""
                       THEN [s |-> c.s, error |-> g.exc, message |-> 0]
                       ELSE IF a.user \notin Row(c.s.conversations, g.conversation).members
                       THEN [s |-> c.s, error |-> "Access denied", message |-> 0]
                       ELSE LET new == [id |-> NextId(c.s.messages),
                                        conversation |-> g.conversation,
                                        sender |-> a.user, text |-> text]
                            IN [s |-> [c.s EXCEPT !.messages = @ \cup {new}],
                                error |-> "", message |-> new.id]

\* mutant: every member of the conversation may delete it
DeleteConversation_mutate_by_member(s, cred, conversation_id) ==
    LET a == get_authenticated_user(s, cred)
    IN IF a.error # "" THEN [s |-> s, error |-> a.error, success |-> FALSE]
       ELSE LET g == get_conversation(s, conversation_id)
            IN IF g.exc = "DoesNotExist"
               THEN [s |-> s, error |-> "Conversation not found", success |-> FALSE]
               ELSE IF g.exc # "" THEN [s |-> s, error |-> g.exc, success |-> FALSE]
               ELSE IF a.user \notin Row(s.conversations, g.conversation).members
               THEN [s |-> s,
                     error |-> "Permission denied: Only the owner can delete this conversation",
                     success |-> FALSE]
               ELSE [s |-> [s EXCEPT
                              !.conversations = {c \in @ : c.id # g.conversation},
                              !.messages = {m \in @ : m.conversation # g.conversation}],
                     error |-> "", success |-> TRUE]

\* conversation.delete() cascades to the conversation's messages
DeleteConversation_mutate(s, cred, conversation_id) ==
    LET a == get_authenticated_user(s, cred)
    IN IF a.error # "" THEN [s |-> s, error |-> a.error, success |-> FALSE]
       ELSE LET g == get_conversation(s, conversation_id)
            IN IF g.exc = "DoesNotExist"
               THEN [s |-> s, error |-> "Conversation not found", success |-> FALSE]
               ELSE IF g.exc # "" THEN [s |-> s, error |-> g.exc, success |-> FALSE]
               ELSE IF Row(s.conversations, g.conversation).owner # a.user
               THEN [s |-> s,
                     error |-> "Permission denied: Only the owner can delete this conversation",
                     success |-> FALSE]
               ELSE [s |-> [s EXCEPT
                              !.conversations = {c \in @ : c.id # g.conversation},
                              !.messages = {m \in @ : m.conversation # g.conversation}],
                     error |-> "", success |-> TRUE]

AddUserToConversation_mutate(s, cred, conversation_id, user_id) ==
    LET a == get_authenticated_user(s, cred)
    IN IF a.error # ""
       THEN [s |-> s, error |-> a.error, success |-> FALSE, message |-> ""]
       ELSE LET g == get_conversation(s, conversation_id)
            IN IF g.exc = "DoesNotExist"
               THEN [s |-> s, error |-> "Conversation not found", success |-> FALSE,
                     message |-> ""]
               ELSE IF g.exc # ""
               THEN [s |-> s, error |-> g.exc, success |-> FALSE, message |-> ""]
               ELSE IF Row(s.conversations, g.conversation).owner # a.user
               THEN [s |-> s,
                     error |-> "Permission denied: Only the owner can add users to this conversation",
                     success |-> FALSE, message |-> ""]
               ELSE LET n == ParseId(user_id)
                    IN IF ~n.ok
                       THEN [s |-> s, error |-> "ValueError", success |-> FALSE,
                             message |-> ""]
                       ELSE IF ~\E x \in s.users : x.id = n.value
                       THEN [s |-> s, error |-> "", success |-> FALSE,
                             message |-> "User not found"]
                       ELSE IF n.value \in Row(s.conversations, g.conversation).members
                       THEN [s |-> s, error |-> "", success |-> FALSE,
                             message |-> "User is already a member of this conversation"]
                       ELSE [s |-> [s EXCEPT !.conversations =
                                      {IF c.id = g.conversation
                                       THEN [c EXCEPT !.members = @ \cup {n.value}]
                                       ELSE c : c \in @}],
                             error |-> "", success |-> TRUE,
                             message |-> "User has been added to the conversation"]

(***************************************************************************)
(* utils/validators.py, users/models.py, users/services.py and             *)
(* users/schema.py.  A user name or an email address is the sequence of    *)
(* its characters.                                                         *)
(***************************************************************************)
\* the characters of the class [a-zA-Z0-9]
Alphanumerics ==
    {"a", "b", "c", "d", "e", "f", "g", "h", "i", "j", "k", "l", "m",
     "n", "o", "p", "q", "r", "s", "t", "u", "v", "w", "x", "y", "z",
     "A", "B", "C", "D", "E", "F", "G", "H", "I", "J", "K", "L", "M",
     "N", "O", "P", "Q", "R", "S", "T", "U", "V", "W", "X", "Y", "Z"}
    \cup {Digits[i] : i \in 1..10}

\* RegexValidator(regex=r"^[a-zA-Z0-9]+$")(username): TRUE when no
\* ValidationError is raised.  The pattern is searched for, and $ matches
\* at the end of the string and also just before a newline that ends it.
username_validator(username) ==
    LET body == IF Len(username) > 0 /\ username[Len(username)] = "\n"
                THEN SubSeq(username, 1, Len(username) - 1)
                ELSE username
    IN /\ Len(body) > 0
       /\ \A i \in 1..Len(body) : body[i] \in Alphanumerics

\* django.core.validators.validate_email, for addresses of letters, digits,
\* "@" and ".": one "@" after a user part, and a domain whose last label,
\* of two characters or more, follows a "." that follows another label
validate_email(email) ==
    \E i \in 1..Len(email) :
        /\ email[i] = "@" /\ i > 1 /\ i < Len(email)
        /\ \A j \in 1..Len(email) : email[j] = "@" => j = i
        /\ \A j \in 1..Len(email) :
              email[j] \in Alphanumerics \cup {"@", "."}
        /\ email[i + 1] # "." /\ email[i - 1] # "." /\ email[1] # "."
        /\ \E k \in (i + 2)..(Len(email) - 2) :
              /\ email[k] = "."
              /\ \A j \in (k + 1)..Len(email) : email[j] # "."

\* CustomUserManager.create_user: the row is inserted, with is_staff at its
\* default, unless user_name or email breaks its unique constraint
User_create_user(s, user_name, email, is_active) ==
    IF \E x \in s.users : x.user_name = user_name \/ x.email = email
    THEN [s |-> s, exc |-> "IntegrityError", user |-> 0]
    ELSE LET new == [id |-> NextId(s.users), user_name |-> user_name,
                     email |-> email, is_active |-> is_active, is_staff |-> FALSE]
         IN [s |-> [s EXCEPT !.users = @ \cup {new}], exc |-> "", user |-> new.id]

\* hours a verification token stays valid, in ticks of the clock
EMAIL_VERIFICATION_TOKEN_EXPIRY == 1

\* EmailVerificationToken.objects.create(user=user): token is a fresh UUID
\* (uuid4), here the number of the row, and save() sets expires_at
EmailVerificationToken_create(s, clock, user) ==
    LET new == [id |-> NextId(s.tokens), user |-> user, token |-> NextId(s.tokens),
                expires_at |-> clock + EMAIL_VERIFICATION_TOKEN_EXPIRY,
                is_used |-> FALSE]
    IN [s |-> [s EXCEPT !.tokens = @ \cup {new}], token |-> new.id]

\* EmailVerificationToken.is_valid
is_valid(verification_token, clock) ==
    clock <= verification_token.expires_at /\ ~verification_token.is_used

\* str(uuid): the text of a UUID as it is mailed
uuid_str(n) == [kind |-> "uuid", value |-> n]

\* send_verification_email_task.delay(email, token): one more task queued
send_verification_email_task_delay(s, email, token) ==
    [s EXCEPT !.outbox = Append(@, [email |-> email, token |-> token])]

\* mutant: the user is created active
create_user_active(s, clock, user_name, email) ==
    LET c == User_create_user(s, user_name, email, TRUE)
    IN IF c.exc # "" THEN [s |-> c.s, exc |-> c.exc, user |-> 0]
       ELSE LET g == get_or_create_user_subscription(c.s, c.user)
            IN IF g.exc # "" THEN [s |-> g.s, exc |-> g.exc, user |-> 0]
               ELSE LET k == EmailVerificationToken_create(g.s, clock, c.user)
                    IN [s |-> send_verification_email_task_delay(
                                  k.s, email, uuid_str(Row(k.s.tokens, k.token).token)),
                        exc |-> "", user |-> c.user]

\* services.create_user: the statements run one after the other in no
\* transaction, so an exception leaves what the earlier ones stored
create_user(s, clock, user_name, email) ==
    LET c == User_create_user(s, user_name, email, FALSE)
    IN IF c.exc # "" THEN [s |-> c.s, exc |-> c.exc, user |-> 0]
       ELSE LET g == get_or_create_user_subscription(c.s, c.user)
            IN IF g.exc # "" THEN [s |-> g.s, exc |-> g.exc, user |-> 0]
               ELSE LET k == EmailVerificationToken_create(g.s, clock, c.user)
                    IN [s |-> send_verification_email_task_delay(
                                  k.s, email, uuid_str(Row(k.s.tokens, k.token).token)),
                        exc |-> "", user |-> c.user]

\* Query.resolve_me: user is the id of the user returned
resolve_me(s, cred) ==
    LET a == get_authenticated_user(s, cred)
    IN [s |-> s, error |-> a.error, user |-> a.user]

\* Query.resolve_users: User.objects.all(), as the set of the users' ids
resolve_users(s, cred) ==
    LET a == get_authenticated_user(s, cred)
    IN IF a.error # "" THEN [s |-> s, error |-> a.error, users |-> {}]
       ELSE IF ~Row(s.users, a.user).is_staff
       THEN [s |-> s, error |-> "Permission denied", users |-> {}]
       ELSE [s |-> s, error |-> "", users |-> {x.id : x \in s.users}]

\* CreateUser.mutate (register)
CreateUser_mutate(s, clock, user_name, email) ==
    IF Len(user_name) < 5
    THEN [s |-> s, error |-> "Username must be at least 5 characters long", user |-> 0]
    ELSE IF ~username_validator(user_name)
    THEN [s |-> s,
          error |-> "Username must consist of only English letters And without any spaces",
          user |-> 0]
    ELSE IF \E x \in s.users : x.user_name = user_name
    THEN [s |-> s, error |-> "Username already exists", user |-> 0]
    ELSE IF \E x \in s.users : x.email = email
    THEN [s |-> s, error |-> "Email already exists", user |-> 0]
    ELSE IF ~validate_email(email)
    THEN [s |-> s, error |-> "Invalid email format", user |-> 0]
    ELSE LET c == create_user(s, clock, user_name, email)
         IN [s |-> c.s, error |-> c.exc, user |-> c.user]

\* uuid.UUID(token): the UUID a text spells, in whichever of the accepted
\* spellings, or ValueError
uuid_UUID(token) ==
    IF token.kind = "uuid" THEN [ok |-> TRUE, value |-> token.value]
    ELSE [ok |-> FALSE, value |-> 0]

\* mutant: a token that has been used is accepted again
VerifyEmail_mutate_reusable(s, clock, token) ==
    LET u == uuid_UUID(token)
    IN IF ~u.ok \/ ~\E k \in s.tokens : k.token = u.value
       THEN [s |-> s, error |-> "", success |-> FALSE,
             message |-> "Invalid verification token", user |-> 0]
       ELSE LET verification_token == CHOOSE k \in s.tokens : k.token = u.value
            IN IF clock > verification_token.expires_at
               THEN [s |-> s, error |-> "", success |-> FALSE,
                     message |-> "Verification link has expired or already used",
                     user |-> 0]
               ELSE [s |-> [s EXCEPT
                              !.users = {IF x.id = verification_token.user
                                         THEN [x EXCEPT !.is_active = TRUE]
                                         ELSE x : x \in @},
                              !.tokens = {IF k.id = verification_token.id
                                          THEN [k EXCEPT !.is_used = TRUE]
                                          ELSE k : k \in @}],
                     error |-> "", success |-> TRUE,
                     message |-> "Your email has been verified successfully!",
                     user |-> verification_token.user]

\* VerifyEmail.mutate: user is the user the returned access and refresh
\* tokens are for, 0 for none
VerifyEmail_mutate(s, clock, token) ==
    LET u == uuid_UUID(token)
    IN IF ~u.ok \/ ~\E k \in s.tokens : k.token = u.value
       THEN [s |-> s, error |-> "", success |-> FALSE,
             message |-> "Invalid verification token", user |-> 0]
       ELSE LET verification_token == CHOOSE k \in s.tokens : k.token = u.value
            IN IF ~is_valid(verification_token, clock)
               THEN [s |-> s, error |-> "", success |-> FALSE,
                     message |-> "Verification link has expired or already used",
                     user |-> 0]
               ELSE [s |-> [s EXCEPT
                              !.users = {IF x.id = verification_token.user
                                         THEN [x EXCEPT !.is_active = TRUE]
                                         ELSE x : x \in @},
                              !.tokens = {IF k.id = verification_token.id
                                          THEN [k EXCEPT !.is_used = TRUE]
                                          ELSE k : k \in @}],
                     error |-> "", success |-> TRUE,
                     message |-> "Your email has been verified successfully!",
                     user |-> verification_token.user]

(***************************************************************************)
(* Requests: the inputs the operations are tried with.                     *)
(***************************************************************************)
\* an access token of each user; a request that fails authentication
\* leaves the database as it is, and is a stuttering step
Creds == {generate_access_token(1), generate_access_token(2)}

\* the credentials the resolvers are examined with
AllCreds ==
    Creds \cup {NoHeader, [kind |-> "garbage", user_id |-> <<>>, expired |-> FALSE],
                generate_refresh_token(2), generate_access_token(9),
                [generate_access_token(1) EXCEPT !.expired = TRUE]}

\* the credentials of the seed users and of the first registered user, good
\* and bad
AuthCreds ==
    AllCreds \cup {generate_access_token(3), generate_refresh_token(3),
                   [generate_access_token(3) EXCEPT !.expired = TRUE]}

\* a string that is no number
NotANumber == <<"x">>

\* every plan id there can be, one past them, and a string that is no number
PlanIdInputs == {str(i) : i \in 1..(MaxPlans + 1)} \cup {NotANumber}

\* every conversation id there can be, one past them, and a string that is
\* no number
ConversationIdInputs == {str(i) : i \in 1..(MaxConvs + 1)} \cup {NotANumber}

ChatConversationIdInputs == {str(i) : i \in 1..(MaxChatConvs + 1)} \cup {NotANumber}

UserIdInputs == {str(1), str(2), str(9), NotANumber}

MemberIdInputs == {<<>>, <<str(2)>>, <<str(9)>>, <<NotANumber, str(2)>>}

\* the member lists that add nobody to the conversation
SoloMemberIdInputs == {<<>>, <<str(9)>>, <<NotANumber, str(2)>>}

PlanNames == {"Free", "Pro"}

\* <<max_characters, max_conversations>> of a createSubscriptionPlan request
PlanLimitInputs == {<<1, 1>>, <<-1, 1>>, <<1, -1>>}

\* texts of 1, 5 and 6 characters
Texts == {"a", "hello", "hello!"}

\* the texts that are sent: of 1 and of 6 characters
SentTexts == {"a", "hello!"}

(***************************************************************************)
(* The state machine.                                                      *)
(***************************************************************************)
\* the users there are from the start: an administrator (createsuperuser)
\* and a verified user, with the columns of CustomUser that are read
SeedUsers ==
    {[id |-> 1, user_name |-> <<"a", "d", "m", "i", "n">>,
      email |-> <<"r", "@", "x", ".", "i", "o">>,
      is_active |-> TRUE, is_staff |-> TRUE],
     [id |-> 2, user_name |-> <<"a", "l", "i", "c", "e">>,
      email |-> <<"a", "@", "x", ".", "i", "o">>,
      is_active |-> TRUE, is_staff |-> FALSE]}

\* the user names of register requests: two that are free and well formed,
\* one of 3 characters, one with a "!", one that ends in a newline, and
\* the name of a user there is
UserNameInputs ==
    {<<"b", "o", "b", "b", "y">>, <<"c", "a", "r", "o", "l">>,
     <<"b", "o", "b">>, <<"b", "o", "b", "b", "!">>,
     <<"b", "o", "b", "b", "y", "\n">>,
     <<"a", "l", "i", "c", "e">>}

\* the addresses of register requests: two that are free, the address of a
\* user there is, and one without "@"
EmailInputs ==
    {<<"b", "@", "x", ".", "i", "o">>, <<"c", "@", "x", ".", "i", "o">>,
     <<"a", "@", "x", ".", "i", "o">>, <<"b", "x">>}

\* the tokens of verifyEmail requests: the UUIDs of the first tokens, a
\* UUID that no token has, and a text that spells no UUID
VerificationTokenInputs ==
    {uuid_str(1), uuid_str(2), uuid_str(7), [kind |-> "malformed", value |-> 0]}

\* an access token of each seed user and of the first registered user
UserCreds == Creds \cup {generate_access_token(3)}

\* a request slot with no request in it
Idle == [pc |-> "idle", user |-> 0, plan |-> 0]

Init ==
    /\ users = SeedUsers
    /\ plans = {}
    /\ subs = {}
    /\ conversations = {}
    /\ conv_seq = 0
    /\ messages = {}
    /\ inflight = [p \in 1..NumProcs |-> Idle]
    /\ tokens = {}
    /\ outbox = <<>>
    /\ now = 0

\* the tables stay within the bounds of the model
Fits(s) ==
    /\ Cardinality(s.plans) <= MaxPlans
    /\ s.conv_seq <= MaxConvs
    /\ Cardinality(s.messages) <= MaxMessages

\* the tables stay within the bounds of the chat specification
FitsChat(s) ==
    /\ s.conv_seq <= MaxChatConvs
    /\ Cardinality(s.messages) <= MaxMessages

\* the database becomes s
Commit(s) ==
    /\ users' = s.users
    /\ plans' = s.plans
    /\ subs' = s.subs
    /\ conversations' = s.conversations
    /\ conv_seq' = s.conv_seq
    /\ messages' = s.messages
    /\ tokens' = s.tokens
    /\ outbox' = s.outbox
    /\ now' = now

\* query mySubscription { plan conversationsRemaining }
MySubscription(cred) ==
    LET r == resolve_my_subscription(DB, cred)
    IN /\ Commit(IF r.error # "" THEN r.s
                 ELSE resolve_conversations_remaining(r.s, cred).s)
       /\ UNCHANGED inflight

CreateSubscriptionPlan(cred, name, max_characters, max_conversations, is_active) ==
    /\ Commit(CreateSubscriptionPlan_mutate(DB, cred, name, max_characters,
                                            max_conversations, is_active).s)
    /\ UNCHANGED inflight

UpgradeSubscription(cred, plan_id) ==
    /\ Commit(UpgradeSubscription_mutate(DB, cred, plan_id).s)
    /\ UNCHANGED inflight

CreateConversation(cred, member_ids) ==
    /\ Commit(CreateConversation_mutate(DB, cred, member_ids).s)
    /\ UNCHANGED inflight

SendMessage(cred, conversation_id, text) ==
    /\ Commit(SendMessage_mutate(DB, cred, conversation_id, text).s)
    /\ UNCHANGED inflight

DeleteConversation(cred, conversation_id) ==
    /\ Commit(DeleteConversation_mutate(DB, cred, conversation_id).s)
    /\ UNCHANGED inflight

AddUserToConversation(cred, conversation_id, user_id) ==
    /\ Commit(AddUserToConversation_mutate(DB, cred, conversation_id, user_id).s)
    /\ UNCHANGED inflight

(***************************************************************************)
(* Spec: the entitlement service from an empty database.  sendMessage      *)
(* touches plans and subscriptions only through check_message_limits,     *)
(* which provisions exactly as mySubscription does, and messages and       *)
(* added members are read by none of these operations: they are left to   *)
(* SpecChat.                                                               *)
(***************************************************************************)
Next ==
    \/ \E cred \in Creds : MySubscription(cred) /\ Fits(DB)'
    \/ \E cred \in Creds, name \in PlanNames, limits \in PlanLimitInputs,
          active \in BOOLEAN :
           CreateSubscriptionPlan(cred, name, limits[1], limits[2], active)
             /\ Fits(DB)'
    \/ \E cred \in Creds, plan_id \in PlanIdInputs :
           UpgradeSubscription(cred, plan_id) /\ Fits(DB)'
    \/ \E cred \in Creds, member_ids \in SoloMemberIdInputs :
           CreateConversation(cred, member_ids) /\ Fits(DB)'
    \/ \E cred \in Creds, conversation_id \in ConversationIdInputs :
           DeleteConversation(cred, conversation_id) /\ Fits(DB)'

Spec == Init /\ [][Next]_vars

(***************************************************************************)
(* SpecChat: the chat operations over a plan table that holds the          *)
(* bootstrap plan and one plan an administrator created.                   *)
(***************************************************************************)
InitChat ==
    /\ users = SeedUsers
    /\ plans = {[id |-> 1, name |-> "Free", max_characters |-> FreeMaxCharacters,
                 max_conversations |-> FreeMaxConversations,
                 is_active |-> TRUE, is_default |-> TRUE],
                [id |-> 2, name |-> "Pro", max_characters |-> 1,
                 max_conversations |-> 1,
                 is_active |-> TRUE, is_default |-> FALSE]}
    /\ subs = {}
    /\ conversations = {}
    /\ conv_seq = 0
    /\ messages = {}
    /\ inflight = [p \in 1..NumProcs |-> Idle]
    /\ tokens = {}
    /\ outbox = <<>>
    /\ now = 0

NextChat ==
    \/ \E cred \in Creds : MySubscription(cred) /\ FitsChat(DB)'
    \/ \E cred \in Creds, plan_id \in PlanIdInputs :
           UpgradeSubscription(cred, plan_id) /\ FitsChat(DB)'
    \/ \E cred \in Creds, member_ids \in MemberIdInputs :
           CreateConversation(cred, member_ids) /\ FitsChat(DB)'
    \/ \E cred \in Creds, conversation_id \in ChatConversationIdInputs, text \in SentTexts :
           SendMessage(cred, conversation_id, text) /\ FitsChat(DB)'
    \/ \E cred \in Creds, conversation_id \in ChatConversationIdInputs :
           DeleteConversation(cred, conversation_id) /\ FitsChat(DB)'
    \/ \E cred \in Creds, conversation_id \in ChatConversationIdInputs,
          user_id \in UserIdInputs :
           AddUserToConversation(cred, conversation_id, user_id) /\ FitsChat(DB)'

SpecChat == InitChat /\ [][NextChat]_vars

(***************************************************************************)
(* SpecConc: requests that interleave.  A mySubscription request in slot p *)
(* runs get_or_create_user_subscription one database statement at a time:  *)
(* the read of user.subscription, the read of the default plan, the insert *)
(* of the bootstrap plan, the insert of the subscription.  Each statement  *)
(* is atomic (autocommit), and upgradeSubscription requests run between    *)
(* them.  The chat operations reach plans and subscriptions only through   *)
(* this same provisioning, so they are left out here.                      *)
(***************************************************************************)
\* get_or_create_user_subscription, "return user.subscription": the request
\* is answered at once when the row exists
ReadSubscription(p, cred) ==
    LET a == get_authenticated_user(DB, cred)
    IN /\ inflight[p].pc = "idle"
       /\ a.error = ""
       /\ inflight' = [inflight EXCEPT ![p] =
              IF subscription(DB, a.user) # {} THEN Idle
              ELSE [pc |-> "get_default_plan", user |-> a.user, plan |-> 0]]
       /\ UNCHANGED <<users, plans, subs, conversations, conv_seq, messages,
                    tokens, outbox, now>>

\* get_default_plan: filter(is_default=True).first()
ReadDefaultPlan(p) ==
    LET default_plan == first_default_plan(DB)
    IN /\ inflight[p].pc = "get_default_plan"
       /\ inflight' = [inflight EXCEPT ![p] =
              IF default_plan # 0
              THEN [@ EXCEPT !.pc = "create_subscription", !.plan = default_plan]
              ELSE [@ EXCEPT !.pc = "create_default_plan"]]
       /\ UNCHANGED <<users, plans, subs, conversations, conv_seq, messages,
                    tokens, outbox, now>>

\* get_default_plan: SubscriptionPlan.objects.create(name="Free", ...)
CreateDefaultPlan(p) ==
    LET c == SubscriptionPlan_create(DB, "Free", FreeMaxCharacters,
                                     FreeMaxConversations, TRUE, TRUE)
    IN /\ inflight[p].pc = "create_default_plan"
       /\ Commit(c.s)
       /\ inflight' = [inflight EXCEPT ![p] =
              [@ EXCEPT !.pc = "create_subscription", !.plan = c.plan]]

\* UserSubscription.objects.create(user=user, plan=default_plan): the row
\* is returned, or the IntegrityError of the unique constraint, caught
\* nowhere, ends the request
CreateSubscription(p) ==
    /\ inflight[p].pc = "create_subscription"
    /\ Commit(UserSubscription_create(DB, inflight[p].user, inflight[p].plan).s)
    /\ inflight' = [inflight EXCEPT ![p] = Idle]

NextConc ==
    \/ \E p \in 1..NumProcs, cred \in Creds : ReadSubscription(p, cred)
    \/ \E p \in 1..NumProcs : ReadDefaultPlan(p)
    \/ \E p \in 1..NumProcs : CreateDefaultPlan(p) /\ Fits(DB)'
    \/ \E p \in 1..NumProcs : CreateSubscription(p)
    \/ \E cred \in Creds, plan_id \in PlanIdInputs :
           UpgradeSubscription(cred, plan_id) /\ Fits(DB)'

SpecConc == Init /\ [][NextConc]_vars

(***************************************************************************)
(* SpecAdmin: the subscription operations together with an administrator   *)
(* who activates and deactivates plans in the admin site, which is the     *)
(* way a plan that subscriptions reference becomes inactive.               *)
(***************************************************************************)
AdminChangePlan(plan, is_active) ==
    /\ \E p \in plans : p.id = plan /\ p.is_active # is_active
    /\ Commit(SubscriptionAdmin_change(DB, plan, is_active))
    /\ UNCHANGED inflight

NextAdmin ==
    \/ \E cred \in Creds : MySubscription(cred) /\ Fits(DB)'
    \/ \E cred \in Creds, name \in PlanNames, limits \in PlanLimitInputs,
          active \in BOOLEAN :
           CreateSubscriptionPlan(cred, name, limits[1], limits[2], active)
             /\ Fits(DB)'
    \/ \E cred \in Creds, plan_id \in PlanIdInputs :
           UpgradeSubscription(cred, plan_id) /\ Fits(DB)'
    \/ \E plan \in 1..MaxPlans, is_active \in BOOLEAN :
           AdminChangePlan(plan, is_active)

SpecAdmin == Init /\ [][NextAdmin]_vars

(***************************************************************************)
(* SpecUsers: registration and email verification against a clock, with    *)
(* mySubscription as the operation a user reaches once verified.           *)
(***************************************************************************)
FitsUsers(s) == Cardinality(s.users) <= MaxUsers

\* mutation register(userName, email, password, firstName, lastName)
Register(user_name, email) ==
    /\ Commit(CreateUser_mutate(DB, now, user_name, email).s)
    /\ UNCHANGED inflight

\* mutation verifyEmail(token)
VerifyEmail(token) ==
    /\ Commit(VerifyEmail_mutate(DB, now, token).s)
    /\ UNCHANGED inflight

\* an hour passes
Tick ==
    /\ now < MaxTime
    /\ now' = now + 1
    /\ UNCHANGED <<users, plans, subs, conversations, conv_seq, messages, inflight,
                   tokens, outbox>>

NextUsers ==
    \/ \E user_name \in UserNameInputs, email \in EmailInputs :
           Register(user_name, email) /\ FitsUsers(DB)'
    \/ \E token \in VerificationTokenInputs : VerifyEmail(token)
    \/ Tick
    \/ \E cred \in UserCreds : MySubscription(cred)

SpecUsers == Init /\ [][NextUsers]_vars

(***************************************************************************)
(* SpecRace: createConversation requests that interleave.  A request in    *)
(* slot p runs check_conversation_limits, and in a later step, when the    *)
(* check has allowed it, creates the conversation.  No transaction and no  *)
(* lock spans the two, so the requests of the other slots and the         *)
(* deleteConversation requests run between them.  The users are           *)
(* provisioned from the start, user 1 on the bootstrap plan and user 2 on *)
(* the plan of one conversation, and no plan changes.                     *)
(***************************************************************************)
InitRace ==
    /\ users = SeedUsers
    /\ plans = {[id |-> 1, name |-> "Free", max_characters |-> FreeMaxCharacters,
                 max_conversations |-> FreeMaxConversations,
                 is_active |-> TRUE, is_default |-> TRUE],
                [id |-> 2, name |-> "Pro", max_characters |-> 1,
                 max_conversations |-> 1,
                 is_active |-> TRUE, is_default |-> FALSE]}
    /\ subs = {[id |-> 1, user |-> 1, plan |-> 1], [id |-> 2, user |-> 2, plan |-> 2]}
    /\ conversations = {}
    /\ conv_seq = 0
    /\ messages = {}
    /\ inflight = [p \in 1..NumProcs |-> Idle]
    /\ tokens = {}
    /\ outbox = <<>>
    /\ now = 0

\* the member lists of the interleaved requests: nobody, and user 2
RaceMemberIdInputs == {<<>>, <<str(2)>>}

\* CreateConversation.mutate up to "if not allowed: raise": a request that
\* is denied is answered, one that is allowed goes on to the creation
CheckConversationLimits(p, cred, member_ids) ==
    LET a == get_authenticated_user(DB, cred)
        c == check_conversation_limits(DB, a.user)
    IN /\ inflight[p].pc = "idle"
       /\ a.error = ""
       /\ Commit(c.s)
       /\ inflight' = [inflight EXCEPT ![p] =
              IF c.exc = "" /\ c.allowed
              THEN [pc |-> "create_conversation", user |-> a.user,
                    member_ids |-> member_ids, remaining |-> c.remaining]
              ELSE Idle]

\* CreateConversation.mutate from Conversation.objects.create to the return
CreateConversationRow(p) ==
    /\ inflight[p].pc = "create_conversation"
    /\ Commit(Conversation_create(DB, inflight[p].user, inflight[p].member_ids).s)
    /\ inflight' = [inflight EXCEPT ![p] = Idle]

NextRace ==
    \/ \E p \in 1..NumProcs, cred \in Creds, member_ids \in RaceMemberIdInputs :
           CheckConversationLimits(p, cred, member_ids)
    \/ \E p \in 1..NumProcs : CreateConversationRow(p) /\ FitsChat(DB)'
    \/ \E cred \in Creds, conversation_id \in ChatConversationIdInputs :
           DeleteConversation(cred, conversation_id)

SpecRace == InitRace /\ [][NextRace]_vars

(***************************************************************************)
(* SpecOnboard: registration and email verification together with the     *)
(* chat operations, requested with the access tokens of a verified user    *)
(* and of the first registered user, all within the hour in which the      *)
(* tokens are valid (their expiry is SpecUsers' subject).                  *)
(***************************************************************************)
\* <<user_name, email>> of the register requests, all well formed
OnboardRegistrations ==
    {<<(<<"b", "o", "b", "b", "y">>), (<<"b", "@", "x", ".", "i", "o">>)>>,
     <<(<<"c", "a", "r", "o", "l">>), (<<"c", "@", "x", ".", "i", "o">>)>>}

\* an access token of user 2 and of the first registered user
OnboardCreds == {generate_access_token(2), generate_access_token(3)}

\* the member lists: nobody, and the first registered user
OnboardMemberIdInputs == {<<>>, <<str(3)>>}

FitsOnboard(s) == FitsUsers(s) /\ FitsChat(s)

NextOnboard ==
    \/ \E registration \in OnboardRegistrations :
           Register(registration[1], registration[2]) /\ FitsOnboard(DB)'
    \/ \E token \in VerificationTokenInputs : VerifyEmail(token)
    \/ \E cred \in OnboardCreds, member_ids \in OnboardMemberIdInputs :
           CreateConversation(cred, member_ids) /\ FitsOnboard(DB)'
    \/ \E cred \in OnboardCreds, conversation_id \in ChatConversationIdInputs :
           SendMessage(cred, conversation_id, "a") /\ FitsOnboard(DB)'

SpecOnboard == Init /\ [][NextOnboard]_vars

(***************************************************************************)
(* SpecVerify: verifyEmail requests that interleave.  A request in slot p  *)
(* loads the token row and tests is_valid on the object it has loaded,     *)
(* saves the user, saves the token object, and answers; each save is its   *)
(* own statement (autocommit), no transaction or row lock spans them, and  *)
(* the requests of the other slots run between them.                       *)
(***************************************************************************)
\* VerifyEmail.mutate up to the test of is_valid: a request with a token
\* that is malformed, unknown, used or expired is answered success = false;
\* another goes on with the row it has loaded
LoadVerificationToken(p, token) ==
    LET u == uuid_UUID(token)
    IN /\ inflight[p].pc = "idle"
       /\ inflight' = [inflight EXCEPT ![p] =
              IF ~u.ok \/ ~\E k \in tokens : k.token = u.value
              THEN Idle
              ELSE LET verification_token == CHOOSE k \in tokens : k.token = u.value
                   IN IF ~is_valid(verification_token, now) THEN Idle
                      ELSE [pc |-> "save_user",
                            verification_token |-> verification_token]]
       /\ UNCHANGED <<users, plans, subs, conversations, conv_seq, messages,
                      tokens, outbox, now>>

\* user = verification_token.user; user.is_active = True; user.save()
SaveUser(p) ==
    /\ inflight[p].pc = "save_user"
    /\ Commit([DB EXCEPT !.users =
                  {IF x.id = inflight[p].verification_token.user
                   THEN [x EXCEPT !.is_active = TRUE] ELSE x : x \in @}])
    /\ inflight' = [inflight EXCEPT ![p] = [@ EXCEPT !.pc = "save_token"]]

\* verification_token.is_used = True; verification_token.save(): the row
\* is written from the object loaded, and the request is about to return
\* success = true with an access and a refresh token of the user
SaveVerificationToken(p) ==
    /\ inflight[p].pc = "save_token"
    /\ Commit([DB EXCEPT !.tokens =
                  {IF k.id = inflight[p].verification_token.id
                   THEN [inflight[p].verification_token EXCEPT !.is_used = TRUE]
                   ELSE k : k \in @}])
    /\ inflight' = [inflight EXCEPT ![p] = [@ EXCEPT !.pc = "success"]]

\* return VerifyEmail(success=True, ...)
ReturnSuccess(p) ==
    /\ inflight[p].pc = "success"
    /\ inflight' = [inflight EXCEPT ![p] = Idle]
    /\ UNCHANGED <<users, plans, subs, conversations, conv_seq, messages,
                   tokens, outbox, now>>

NextVerify ==
    \/ \E registration \in OnboardRegistrations :
           Register(registration[1], registration[2]) /\ FitsUsers(DB)'
    \/ \E p \in 1..NumProcs, token \in VerificationTokenInputs :
           LoadVerificationToken(p, token)
    \/ \E p \in 1..NumProcs : SaveUser(p)
    \/ \E p \in 1..NumProcs : SaveVerificationToken(p)
    \/ \E p \in 1..NumProcs : ReturnSuccess(p)
    \/ Tick

SpecVerify == Init /\ [][NextVerify]_vars

(***************************************************************************)
(* Properties.                                                             *)
(***************************************************************************)
\* the ids of the users there are
AllUsers == {x.id : x \in users}

\* the conversations user u owns
Owned(u) == {c \in conversations : c.owner = u}

\* the message lengths the limit check is examined with
MessageLengths == {0, 1, 2, 4, 5, 6, 7}

\* C1: for a plan with max_conversations = C and a user on it who owns k
\* conversations, check_conversation_limits returns allowed = (C - k - 1 >= 0)
\* and remaining = C - k - 1, negative values included.
C1_ConversationLimit ==
    \A u \in AllUsers :
        LET r == check_conversation_limits(DB, u)
            k == Cardinality(Owned(u))
        IN /\ r.exc = ""
           /\ \E x \in r.s.subs : x.user = u /\ \E p \in r.s.plans : p.id = x.plan
           /\ \A x \in r.s.subs : \A p \in r.s.plans :
                (x.user = u /\ p.id = x.plan) =>
                    /\ r.allowed = (p.max_conversations - k - 1 >= 0)
                    /\ r.remaining = p.max_conversations - k - 1

\* a user on a plan of 3 conversations owns 3 and is answered (false, -1)
C1_Witness ==
    \E u \in AllUsers : \E x \in subs : \E p \in plans :
        /\ x.user = u /\ p.id = x.plan /\ p.max_conversations = 3
        /\ Cardinality(Owned(u)) = 3
        /\ check_conversation_limits(DB, u).allowed = FALSE
        /\ check_conversation_limits(DB, u).remaining = -1

\* C2: for a plan with max_characters = M and a message length L >= 0,
\* check_message_limits returns allowed = (M - L >= 0) and remaining = M - L,
\* negative (not clamped to zero) when denied.
C2_MessageLimit ==
    \A u \in AllUsers : \A L \in MessageLengths :
        LET r == check_message_limits(DB, u, L)
        IN /\ r.exc = ""
           /\ \E x \in r.s.subs : x.user = u /\ \E p \in r.s.plans : p.id = x.plan
           /\ \A x \in r.s.subs : \A p \in r.s.plans :
                (x.user = u /\ p.id = x.plan) =>
                    /\ r.allowed = (p.max_characters - L >= 0)
                    /\ r.remaining = p.max_characters - L

\* a user on a plan of 5 characters is answered (false, -1) for length 6
C2_Witness ==
    \E u \in AllUsers : \E x \in subs : \E p \in plans :
        /\ x.user = u /\ p.id = x.plan /\ p.max_characters = 5
        /\ check_message_limits(DB, u, 6).allowed = FALSE
        /\ check_message_limits(DB, u, 6).remaining = -1

\* the bootstrap plan get_default_plan creates, with id i
BootstrapPlan(i) ==
    [id |-> i, name |-> "Free", max_characters |-> 5, max_conversations |-> 3,
     is_active |-> TRUE, is_default |-> TRUE]

\* C3: for a user with no subscription, get_or_create_user_subscription
\* returns a new subscription bound to the plan flagged is_default, creating
\* the bootstrap plan Free (5 characters, 3 conversations, active, default)
\* only when no plan is flagged default; a second call returns that same
\* subscription and creates no further subscription or plan.
C3_ProvisionDefault ==
    \A u \in AllUsers :
        (~\E x \in subs : x.user = u) =>
            LET r == get_or_create_user_subscription(DB, u)
                again == get_or_create_user_subscription(r.s, u)
                defaults == {p \in plans : p.is_default}
            IN /\ r.exc = ""
               /\ \E x \in r.s.subs :
                    /\ x.id = r.sub /\ x.user = u /\ x \notin subs
                    /\ r.s.subs = subs \cup {x}
                    /\ \E p \in r.s.plans : p.id = x.plan /\ p.is_default
                    /\ defaults # {} => \E p \in defaults : p.id = x.plan
               /\ IF defaults # {} THEN r.s.plans = plans
                  ELSE \E i \in 1..(MaxPlans + 1) :
                          /\ ~\E p \in plans : p.id = i
                          /\ r.s.plans = plans \cup {BootstrapPlan(i)}
               /\ again.exc = "" /\ again.sub = r.sub /\ again.s = r.s

\* one user has been provisioned on the default plan, which is not the first
\* plan of the table, and another user has no subscription yet
C3_Witness ==
    /\ \E u \in AllUsers : ~\E x \in subs : x.user = u
    /\ \E x \in subs : \E p \in plans : \E q \in plans :
          p.id = x.plan /\ p.is_default /\ ~q.is_default /\ q.id < p.id

\* C4: in every reachable state, whatever the interleaving of the requests
\* that provision and change subscriptions, each user has at most one
\* UserSubscription row, each row is bound to exactly one plan, and a user
\* who has a row keeps exactly one.
C4_OneSubscriptionPerUser ==
    /\ [](\A u \in AllUsers :
            /\ Cardinality({x \in subs : x.user = u}) <= 1
            /\ \A x \in subs : Cardinality({p \in plans : p.id = x.plan}) = 1)
    /\ [][\A u \in AllUsers :
            Cardinality({x \in subs : x.user = u}) = 1
              => Cardinality({x \in subs' : x.user = u}) = 1]_vars

\* a request is about to insert a subscription for a user who, since the
\* request read that there was none, has been given one by another request
C4_Witness ==
    \E p \in 1..NumProcs :
        /\ inflight[p].pc = "create_subscription"
        /\ \E x \in subs : x.user = inflight[p].user

\* plan_id names plan p: it is the decimal numeral of p's id
Names(plan_id, p) == plan_id = str(p.id)

\* C5: change_user_plan with a plan_id that matches no plan, or only an
\* inactive plan, returns false and changes nothing (no subscription is
\* created for a user who has none), and upgradeSubscription then reports
\* success = false with "Invalid plan ID or plan is not active".
C5_InvalidPlanDeclined ==
    \A u \in AllUsers : \A plan_id \in PlanIdInputs :
        (~\E p \in plans : Names(plan_id, p) /\ p.is_active) =>
            LET r == change_user_plan(DB, u, plan_id)
                g == UpgradeSubscription_mutate(DB, generate_access_token(u), plan_id)
            IN /\ r.exc = "" /\ r.ret = FALSE /\ r.s = DB
               /\ g.error = "" /\ g.success = FALSE /\ g.s = DB
               /\ g.message = "Invalid plan ID or plan is not active"

\* C6: change_user_plan with the id of an active plan returns true and
\* leaves the user with one subscription, bound to that plan, which
\* get_or_create_user_subscription then returns and whose limits both checks
\* then use; and the plan of a subscription changes in no step other than a
\* successful upgradeSubscription of its user.
C6_PlanChange ==
    /\ [](\A u \in AllUsers : \A plan_id \in PlanIdInputs : \A p \in plans :
            (Names(plan_id, p) /\ p.is_active) =>
                LET r == change_user_plan(DB, u, plan_id)
                    g == get_or_create_user_subscription(r.s, u)
                    k == Cardinality(Owned(u))
                IN /\ r.exc = "" /\ r.ret = TRUE
                   /\ p \in r.s.plans
                   /\ \E x \in r.s.subs :
                        /\ x.user = u /\ x.plan = p.id
                        /\ \A y \in r.s.subs : y.user = u => y = x
                        /\ g.exc = "" /\ g.sub = x.id /\ g.s = r.s
                   /\ \A L \in MessageLengths :
                        /\ check_message_limits(r.s, u, L).remaining
                             = p.max_characters - L
                        /\ check_message_limits(r.s, u, L).allowed
                             = (L <= p.max_characters)
                   /\ check_conversation_limits(r.s, u).remaining
                        = p.max_conversations - k - 1
                   /\ check_conversation_limits(r.s, u).allowed
                        = (k < p.max_conversations))
    /\ [][\A u \in AllUsers : \A x \in subs : \A y \in subs' :
            (x.user = u /\ y.user = u /\ y.plan # x.plan) =>
                \E plan_id \in PlanIdInputs : \E p \in plans :
                    LET g == UpgradeSubscription_mutate(DB, generate_access_token(u),
                                                        plan_id)
                    IN /\ Names(plan_id, p) /\ p.is_active /\ y.plan = p.id
                       /\ g.success /\ g.s = DB']_vars

\* a user has left the default plan for a plan an administrator created,
\* while another active plan is there to change to
C6_Witness ==
    \E x \in subs : \E p \in plans : \E q \in plans :
        /\ p.id = x.plan /\ ~p.is_default
        /\ q.id # p.id /\ q.is_active
        /\ change_user_plan(DB, x.user, str(q.id)).ret

\* C7: createConversation by a user who owns k conversations on a plan with
\* max_conversations = C adds exactly one conversation, owned by that user,
\* when k < C, and when k >= C fails with the maximum-conversation-limit
\* error and leaves conversations and memberships as they are; a user without
\* a subscription owns nothing, and the owned count of a user whose
\* subscription is not changed by a step does not pass C in that step.
C7_ConversationGate ==
    /\ [](\A u \in AllUsers :
            /\ (~\E x \in subs : x.user = u) => Owned(u) = {}
            /\ \A member_ids \in MemberIdInputs :
                 LET r == CreateConversation_mutate(DB, generate_access_token(u),
                                                    member_ids)
                     k == Cardinality(Owned(u))
                 IN /\ \E x \in r.s.subs : x.user = u
                    /\ \A x \in r.s.subs : \A p \in r.s.plans :
                         (x.user = u /\ p.id = x.plan) =>
                            IF k < p.max_conversations
                            THEN \E c \in r.s.conversations :
                                    /\ c.owner = u /\ u \in c.members
                                    /\ ~\E d \in conversations : d.id = c.id
                                    /\ r.s.conversations = conversations \cup {c}
                            ELSE /\ r.s.conversations = conversations
                                 /\ r.conversation = 0
                                 /\ r.error
                                      = "You have reached your maximum conversation limit.")
    /\ [][\A u \in AllUsers : \A x \in subs' : \A p \in plans' :
            (/\ x.user = u /\ p.id = x.plan
             /\ (x \in subs \/ ~\E y \in subs : y.user = u)
             /\ Cardinality(Owned(u)) <= p.max_conversations)
              => Cardinality(Owned(u)') <= p.max_conversations]_vars

\* a user owns as many conversations as the plan allows, and the next
\* createConversation is refused
C7_Witness ==
    \E u \in AllUsers : \E x \in subs : \E p \in plans :
        /\ x.user = u /\ p.id = x.plan
        /\ Cardinality(Owned(u)) = p.max_conversations
        /\ p.max_conversations = 3
        /\ CreateConversation_mutate(DB, generate_access_token(u), <<>>).error
             = "You have reached your maximum conversation limit."

\* C8: a createConversation that succeeds returns the alert "only one
\* conversation remaining" exactly when max_conversations - owned - 1,
\* computed before the creation, is 1, the alert "reached your conversation
\* limit" exactly when it is 0, and no alert when it is 2 or more.
C8_Alerts ==
    \A u \in AllUsers : \A member_ids \in MemberIdInputs :
        LET r == CreateConversation_mutate(DB, generate_access_token(u), member_ids)
            k == Cardinality(Owned(u))
        IN r.error = "" =>
             /\ r.conversation # 0
             /\ \E x \in r.s.subs : x.user = u
             /\ \A x \in r.s.subs : \A p \in r.s.plans :
                  (x.user = u /\ p.id = x.plan) =>
                     LET remaining == p.max_conversations - k - 1
                     IN /\ (r.alert = "Warning: You have only one conversation remaining.")
                          <=> (remaining = 1)
                        /\ (r.alert = "Warning: You have reached your conversation limit.")
                          <=> (remaining = 0)
                        /\ remaining >= 2 => r.alert = ""

\* a user with one conversation on a plan of 3 is about to be warned that
\* one remains, and another user on a plan of 1 that the limit is reached
C8_Witness ==
    /\ \E u \in AllUsers : \E x \in subs : \E p \in plans :
          /\ x.user = u /\ p.id = x.plan /\ p.max_conversations = 3
          /\ Cardinality(Owned(u)) = 1
          /\ CreateConversation_mutate(DB, generate_access_token(u), <<>>).alert
               = "Warning: You have only one conversation remaining."
    /\ \E u \in AllUsers : \E x \in subs : \E p \in plans :
          /\ x.user = u /\ p.id = x.plan /\ p.max_conversations = 1
          /\ Cardinality(Owned(u)) = 0
          /\ CreateConversation_mutate(DB, generate_access_token(u), <<>>).alert
               = "Warning: You have reached your conversation limit."

\* C9: sendMessage with a text of length L by a user whose plan has
\* max_characters = M creates a Message only if L <= M; when L > M it fails
\* with the character-limit error and creates none, whatever the
\* conversation id and the membership; when L <= M and the sender is a
\* member of the conversation named, exactly one Message with that text,
\* sender and conversation is created.
C9_SendMessageGate ==
    \A u \in AllUsers : \A conversation_id \in ChatConversationIdInputs :
      \A text \in Texts :
        LET r == SendMessage_mutate(DB, generate_access_token(u), conversation_id, text)
            L == Len(text)
        IN /\ \E x \in r.s.subs : x.user = u
           /\ \A x \in r.s.subs : \A p \in r.s.plans :
                (x.user = u /\ p.id = x.plan) =>
                   /\ r.s.messages # messages => L <= p.max_characters
                   /\ L > p.max_characters =>
                        /\ r.error = "Your message exceeds your character limit."
                        /\ r.message = 0
                        /\ r.s.messages = messages
                   /\ (/\ L <= p.max_characters
                       /\ \E c \in conversations :
                             conversation_id = str(c.id) /\ u \in c.members) =>
                        \E m \in r.s.messages :
                            /\ ~\E n \in messages : n.id = m.id
                            /\ r.s.messages = messages \cup {m}
                            /\ r.error = "" /\ r.message = m.id
                            /\ m.text = text /\ m.sender = u
                            /\ str(m.conversation) = conversation_id

\* a member who is not the owner has sent a message, and a member on the
\* plan of one character is refused five characters and allowed one
C9_Witness ==
    /\ \E m \in messages : \E c \in conversations :
          c.id = m.conversation /\ m.sender # c.owner
    /\ \E u \in AllUsers : \E x \in subs : \E p \in plans : \E c \in conversations :
          /\ x.user = u /\ p.id = x.plan /\ p.max_characters = 1
          /\ u \in c.members
          /\ SendMessage_mutate(DB, generate_access_token(u), str(c.id), "hello").error
               = "Your message exceeds your character limit."
          /\ SendMessage_mutate(DB, generate_access_token(u), str(c.id), "a").error = ""

\* the names and limits of createSubscriptionPlan requests that are examined
C10_Names == PlanNames \cup {"Team"}

C10_Limits == PlanLimitInputs \cup {<<0, 0>>, <<FreeMaxCharacters, FreeMaxConversations>>}

\* the request creates exactly one plan, with the name and the limits given
CreatesOnePlan(r, name, max_characters, max_conversations) ==
    /\ r.success /\ r.error = ""
    /\ \E p \in r.s.plans :
          /\ ~\E q \in plans : q.id = p.id
          /\ r.s.plans = plans \cup {p}
          /\ r.plan = p.id /\ p.name = name
          /\ p.max_characters = max_characters
          /\ p.max_conversations = max_conversations

\* the request is answered with success = false and changes nothing
Declines(r) == ~r.success /\ r.error = "" /\ r.s = DB

C11_UniquePlanNames ==
    \A p \in plans : \A q \in plans : p.name = q.name => p.id = q.id

\* C12: at most one plan is flagged is_default at any time, after any
\* sequence or interleaving of get_default_plan /
\* get_or_create_user_subscription and createSubscriptionPlan calls that
\* starts from a plan store with at most one default plan.
C12_OneDefaultPlan ==
    Cardinality({p \in plans : p.is_default}) <= 1

\* C13: createSubscriptionPlan requested by an authenticated user who is
\* not staff fails with the permission-denied error and creates no plan: the
\* plans (and everything else) are the same before and after the request.
C13_StaffOnly ==
    \A u \in users : \A name \in C10_Names : \A lim \in C10_Limits :
      \A is_active \in BOOLEAN :
        (u.is_active /\ ~u.is_staff) =>
          LET r == CreateSubscriptionPlan_mutate(DB, generate_access_token(u.id), name,
                                                 lim[1], lim[2], is_active)
          IN /\ r.error
                  = "Permission denied. Only administrators can create subscription plans."
             /\ ~r.success /\ r.plan = 0
             /\ r.s.plans = plans
             /\ r.s = DB

\* a user who is not staff asks for a plan of a name that is free, next to
\* a plan that a staff user has created
C13_Witness ==
    \E u \in users : \E p \in plans :
        /\ u.is_active /\ ~u.is_staff /\ ~p.is_default
        /\ ~\E q \in plans : q.name = "Team"
        /\ CreateSubscriptionPlan_mutate(DB, generate_access_token(u.id), "Team",
                                         1, 1, TRUE).error # ""

\* C14: the subscriptionPlans query returns exactly the plans with
\* is_active = true: every active plan is listed and no inactive plan is,
\* whether or not subscriptions still reference the inactive plan.
C14_ActivePlansListed ==
    LET listed == resolve_subscription_plans(DB)
    IN /\ \A p \in plans : p.is_active => p \in listed
       /\ \A p \in listed : p \in plans /\ p.is_active
       /\ \A p \in plans : \A x \in subs :
             (x.plan = p.id /\ ~p.is_active) => p \notin listed

\* a user is subscribed to a plan that has been deactivated, and an active
\* plan is there to be listed
C14_Witness ==
    /\ \E p \in plans : \E x \in subs : x.plan = p.id /\ ~p.is_active
    /\ \E p \in plans : p.is_active

\* C15: mySubscription.conversationsRemaining of the authenticated user is
\* max_conversations of the user's current plan, minus the number of
\* conversations the user owns, minus 1 (2 for a user on a plan of 3 who
\* owns none).
C15_ConversationsRemaining ==
    \A u \in AllUsers :
        LET m == resolve_my_subscription(DB, generate_access_token(u))
            r == resolve_conversations_remaining(m.s, generate_access_token(u))
        IN /\ m.error = "" /\ r.error = "" /\ r.s = m.s
           /\ \E x \in m.s.subs : x.user = u /\ x.id = m.sub
           /\ \A x \in m.s.subs : \A p \in m.s.plans :
                (x.user = u /\ p.id = x.plan) =>
                    r.remaining = p.max_conversations - Cardinality(Owned(u)) - 1

\* one user on the plan of 3 owns nothing and sees 2, another owns more
\* than the plan allows and sees a negative number
C15_Witness ==
    /\ \E u \in AllUsers : \E x \in subs : \E p \in plans :
          /\ x.user = u /\ p.id = x.plan /\ p.max_conversations = 3
          /\ Owned(u) = {}
          /\ resolve_conversations_remaining(DB, generate_access_token(u)).remaining = 2
    /\ \E u \in AllUsers :
          resolve_conversations_remaining(DB, generate_access_token(u)).remaining < -1

\* C16: only the owner of a conversation can delete it or add users to it:
\* deleteConversation or addUserToConversation by any other user, a member
\* included, fails with the permission-denied error and leaves the
\* conversation, its members and its messages as they are;
\* deleteConversation by the owner removes the conversation; and no step
\* removes a conversation or changes its members but a deleteConversation
\* or addUserToConversation of its owner.
C16_OwnerOnly ==
    /\ [](\A u \in AllUsers : \A c \in conversations :
            LET d == DeleteConversation_mutate(DB, generate_access_token(u), str(c.id))
            IN IF u # c.owner
               THEN /\ d.error
                         = "Permission denied: Only the owner can delete this conversation"
                    /\ ~d.success /\ d.s = DB
                    /\ \A user_id \in UserIdInputs :
                         LET a == AddUserToConversation_mutate(
                                      DB, generate_access_token(u), str(c.id), user_id)
                         IN /\ a.error
                                 = "Permission denied: Only the owner can add users to this conversation"
                            /\ ~a.success /\ a.s = DB
               ELSE /\ d.error = "" /\ d.success
                    /\ d.s.conversations = conversations \ {c}
                    /\ ~\E e \in d.s.conversations : e.id = c.id)
    /\ [][\A c \in conversations :
            c \notin conversations' =>
                \/ DB' = DeleteConversation_mutate(DB, generate_access_token(c.owner),
                                                   str(c.id)).s
                \/ \E user_id \in UserIdInputs :
                      DB' = AddUserToConversation_mutate(
                                DB, generate_access_token(c.owner), str(c.id), user_id).s]_vars

\* a member who is not the owner stands before a conversation that holds a
\* message, and is refused both operations
C16_Witness ==
    \E c \in conversations : \E u \in c.members : \E m \in messages :
        /\ u # c.owner /\ m.conversation = c.id
        /\ DeleteConversation_mutate(DB, generate_access_token(u), str(c.id)).error # ""
        /\ AddUserToConversation_mutate(DB, generate_access_token(u), str(c.id),
                                        str(u)).error # ""

\* C17: conversation(id) and messages(conversationId) return data only when
\* the requester is a member of the conversation, answer 'Access denied' to
\* a non-member and 'Conversation not found' for an id that matches no
\* conversation, and the conversations query lists exactly the
\* conversations of which the requester is a member.
C17_MembersOnly ==
    \A u \in AllUsers :
        /\ resolve_conversations(DB, generate_access_token(u)).conversations
             = {c.id : c \in {d \in conversations : u \in d.members}}
        /\ \A id \in ChatConversationIdInputs :
             LET r == resolve_conversation(DB, generate_access_token(u), id)
                 m == resolve_messages(DB, generate_access_token(u), id)
             IN IF \E c \in conversations : id = str(c.id)
                THEN \A c \in conversations :
                        id = str(c.id) =>
                            IF u \in c.members
                            THEN /\ r.error = "" /\ r.conversation = c.id
                                 /\ m.error = ""
                                 /\ m.messages = {x \in messages : x.conversation = c.id}
                            ELSE /\ r.error = "Access denied" /\ r.conversation = 0
                                 /\ m.error = "Access denied" /\ m.messages = {}
                ELSE /\ r.error = "Conversation not found" /\ r.conversation = 0
                     /\ m.error = "Conversation not found" /\ m.messages = {}

\* every character of the user name is a letter or a digit
IsAlphanumeric(user_name) ==
    \A i \in 1..Len(user_name) : user_name[i] \in Alphanumerics

\* C18: a successful register creates exactly one user, with is_active =
\* false, provisions exactly one subscription for that user, on the default
\* plan, creates one verification token for the user and enqueues the
\* verification email task exactly once; a register with a user name
\* shorter than 5 characters, a user name that is not alphanumeric, or a
\* user name or email that is already used creates no user, no subscription
\* and no token and enqueues nothing.
C18_Register ==
    \A user_name \in UserNameInputs : \A email \in EmailInputs :
        LET r == CreateUser_mutate(DB, now, user_name, email)
        IN /\ r.error = "" =>
                \E x \in r.s.users : \E y \in r.s.subs : \E k \in r.s.tokens :
                    /\ ~\E z \in users : z.id = x.id
                    /\ r.s.users = users \cup {x} /\ r.user = x.id
                    /\ ~x.is_active /\ x.user_name = user_name /\ x.email = email
                    /\ ~\E z \in subs : z.id = y.id
                    /\ r.s.subs = subs \cup {y} /\ y.user = x.id
                    /\ \E p \in r.s.plans : p.id = y.plan /\ p.is_default
                    /\ ~\E z \in tokens : z.id = k.id \/ z.token = k.token
                    /\ r.s.tokens = tokens \cup {k} /\ k.user = x.id /\ ~k.is_used
                    /\ r.s.outbox
                         = Append(outbox, [email |-> email, token |-> uuid_str(k.token)])
           /\ (\/ Len(user_name) < 5
               \/ ~IsAlphanumeric(user_name)
               \/ \E z \in users : z.user_name = user_name
               \/ \E z \in users : z.email = email) =>
                /\ r.error # "" /\ r.user = 0
                /\ r.s.users = users /\ r.s.subs = subs
                /\ r.s.tokens = tokens /\ r.s.outbox = outbox

\* C19: verifyEmail succeeds only for a token that exists, is not expired
\* and has not been used; on success the token's user becomes active and
\* the token becomes used, and nothing else changes; a used token stays
\* used, and verifyEmail with it returns success = false with 'expired or
\* already used' and changes nothing, now and at any later hour; an unknown
\* or malformed token returns success = false and changes nothing.
C19_VerifyEmail ==
    /\ [](\A token \in VerificationTokenInputs :
            LET r == VerifyEmail_mutate(DB, now, token)
            IN /\ r.error = ""
               /\ r.success =>
                    \E k \in tokens :
                        /\ token = uuid_str(k.token)
                        /\ now <= k.expires_at /\ ~k.is_used
                        /\ r.user = k.user
                        /\ r.s.users = {IF x.id = k.user THEN [x EXCEPT !.is_active = TRUE]
                                        ELSE x : x \in users}
                        /\ r.s.tokens = {IF j.id = k.id THEN [j EXCEPT !.is_used = TRUE]
                                         ELSE j : j \in tokens}
                        /\ r.s = [DB EXCEPT !.users = r.s.users, !.tokens = r.s.tokens]
                        /\ \A later \in now..(MaxTime + 1) :
                              LET again == VerifyEmail_mutate(r.s, later, token)
                              IN /\ ~again.success /\ again.s = r.s
                                 /\ again.message
                                      = "Verification link has expired or already used"
               /\ \A k \in tokens :
                    (token = uuid_str(k.token) /\ k.is_used) =>
                        /\ ~r.success /\ r.s = DB
                        /\ r.message = "Verification link has expired or already used"
               /\ (~\E k \in tokens : token = uuid_str(k.token)) =>
                    /\ ~r.success /\ r.s = DB
                    /\ r.message = "Invalid verification token")
    /\ [][\A k \in tokens :
            k.is_used => \E j \in tokens' :
                             j.id = k.id /\ j.token = k.token /\ j.is_used]_vars

\* a token has been used and its user is active, while the token of another
\* hour would still be unexpired: the used token is refused
C19_Witness ==
    \E k \in tokens : \E x \in users :
        /\ k.is_used /\ x.id = k.user /\ x.is_active
        /\ now <= k.expires_at
        /\ ~VerifyEmail_mutate(DB, now, uuid_str(k.token)).success

\* the request carries an unexpired access token of an existing user whose
\* is_active is true
Authentic(cred) ==
    /\ cred.kind = "access" /\ ~cred.expired
    /\ \E x \in users : cred.user_id = str(x.id) /\ x.is_active

\* the answers of the operations that resolve the caller through
\* get_authenticated_user, with every input they are examined with
AnswersTo(cred) ==
    {[s |-> r.s, error |-> r.error] :
        r \in {resolve_me(DB, cred), resolve_users(DB, cred),
               resolve_conversations(DB, cred), resolve_my_subscription(DB, cred)}}
    \cup {[s |-> r.s, error |-> r.error] :
        r \in {resolve_messages(DB, cred, id) : id \in ChatConversationIdInputs}}
    \cup {[s |-> r.s, error |-> r.error] :
        r \in {CreateConversation_mutate(DB, cred, m) : m \in MemberIdInputs}}
    \cup {[s |-> r.s, error |-> r.error] :
        r \in {SendMessage_mutate(DB, cred, id, "a") : id \in ChatConversationIdInputs}}
    \cup {[s |-> r.s, error |-> r.error] :
        r \in {DeleteConversation_mutate(DB, cred, id) : id \in ChatConversationIdInputs}}
    \cup {[s |-> r.s, error |-> r.error] :
        r \in {AddUserToConversation_mutate(DB, cred, id, u) :
                  id \in ChatConversationIdInputs, u \in UserIdInputs}}
    \cup {[s |-> r.s, error |-> r.error] :
        r \in {UpgradeSubscription_mutate(DB, cred, id) : id \in PlanIdInputs}}
    \cup {[s |-> r.s, error |-> r.error] :
        r \in {CreateSubscriptionPlan_mutate(DB, cred, name, 1, 1, TRUE) :
                  name \in C10_Names}}

\* C20: every operation that resolves the caller through
\* get_authenticated_user is rejected, with no state change, unless the
\* request carries a Bearer token that is an unexpired access token (not a
\* refresh token) of an existing user whose is_active is true; a request
\* with no Bearer header is answered 'Authentication required'.
C20_AuthenticationGate ==
    \A cred \in AuthCreds :
        /\ ~Authentic(cred) =>
              \A r \in AnswersTo(cred) : r.error # "" /\ r.s = DB
        /\ cred = NoHeader =>
              \A r \in AnswersTo(cred) : r.error = "Authentication required"
        /\ Authentic(cred) =>
              /\ resolve_me(DB, cred).error = ""
              /\ cred.user_id = str(resolve_me(DB, cred).user)

\* a registered user who has not verified the email is refused with an
\* access token, while a seed user is served
C20_Witness ==
    \E x \in users : \E k \in tokens : \E y \in subs :
        /\ ~x.is_active /\ k.user = x.id /\ ~k.is_used
        /\ resolve_my_subscription(DB, generate_access_token(x.id)).error
             = "Account is not active. Please verify your email first."
        /\ y.user # x.id
        /\ resolve_me(DB, generate_access_token(y.user)).error = ""

\* the requests in flight that have passed the limit check for user u
PassedCheck(u) ==
    {p \in 1..NumProcs : inflight[p].pc = "create_conversation" /\ inflight[p].user = u}

\* max_conversations of the plan user u is subscribed to
MaxConversationsOf(u) ==
    (CHOOSE p \in plans : \E x \in subs : x.user = u /\ x.plan = p.id).max_conversations

\* C21: the conversation-count check and the conversation creation are not
\* atomic: a createConversation request that has passed
\* check_conversation_limits creates its conversation whatever the owner's
\* count has become since, so that requests of one owner that all pass the
\* check before any of them creates leave the owner with more than
\* max_conversations conversations, by at most the number of concurrent
\* requests less one.
C21_CheckThenCreate ==
    /\ [](\A p \in 1..NumProcs :
            inflight[p].pc = "create_conversation" =>
                LET u == inflight[p].user
                    r == Conversation_create(DB, u, inflight[p].member_ids)
                IN \E c \in r.s.conversations :
                      /\ c.owner = u /\ u \in c.members
                      /\ ~\E d \in conversations : d.id = c.id
                      /\ r.s.conversations = conversations \cup {c}
                      /\ r.exc = "" /\ r.conversation = c.id)
    /\ [](\A u \in AllUsers :
            Cardinality(Owned(u)) + Cardinality(PassedCheck(u))
                <= MaxConversationsOf(u) + NumProcs - 1)
    /\ [][\A p \in 1..NumProcs :
            (inflight[p].pc = "idle" /\ inflight'[p].pc = "create_conversation") =>
                Cardinality(Owned(inflight'[p].user)) < MaxConversationsOf(inflight'[p].user)]_vars

\* an owner whose plan allows one conversation owns two, both created by
\* requests that passed the check while the owner owned none
C21_Witness ==
    \E u \in AllUsers :
        /\ MaxConversationsOf(u) = 1
        /\ Cardinality(Owned(u)) > MaxConversationsOf(u)

\* C22: when concurrent get_or_create_user_subscription calls for one user
\* have all observed that the user has no subscription, the unique
\* constraint of the one-to-one field lets exactly one insert succeed: an
\* insert that finds no row of the user adds one, an insert that finds the
\* winner's row fails with IntegrityError, which nothing catches, returns
\* no subscription and stores nothing, and either way the user has exactly
\* one subscription afterwards.
C22_RacingProvisioning ==
    \A p \in 1..NumProcs :
        inflight[p].pc = "create_subscription" =>
            LET u == inflight[p].user
                r == UserSubscription_create(DB, u, inflight[p].plan)
            IN /\ IF \E x \in subs : x.user = u
                  THEN r.exc = "IntegrityError" /\ r.sub = 0 /\ r.s = DB
                  ELSE /\ r.exc = ""
                       /\ \E x \in r.s.subs :
                            /\ x.id = r.sub /\ x.user = u /\ x.plan = inflight[p].plan
                            /\ r.s.subs = subs \cup {x}
               /\ Cardinality({x \in r.s.subs : x.user = u}) = 1

\* two requests of one user stood before the insert, one has inserted, and
\* the insert of the other is refused
C22_Witness ==
    \E p \in 1..NumProcs :
        /\ inflight[p].pc = "create_subscription"
        /\ Cardinality({x \in subs : x.user = inflight[p].user}) = 1
        /\ \A q \in 1..NumProcs : q # p => inflight[q].pc = "idle"
        /\ UserSubscription_create(DB, inflight[p].user, inflight[p].plan).exc
             = "IntegrityError"

\* C23: the conversation quota is evaluated against the live count of owned
\* conversations: an owner who owns max_conversations conversations is
\* denied createConversation, and after deleting any one of them the next
\* createConversation of that owner succeeds; a conversation in which the
\* user is a member and not the owner does not count: with or without it
\* check_conversation_limits answers the same.
C23_LiveOwnedCount ==
    \A u \in AllUsers : \A x \in subs : \A p \in plans :
        (x.user = u /\ p.id = x.plan) =>
            /\ Cardinality(Owned(u)) = p.max_conversations =>
                 /\ CreateConversation_mutate(DB, generate_access_token(u), <<>>).error
                      = "You have reached your maximum conversation limit."
                 /\ \A c \in Owned(u) :
                      LET d == DeleteConversation_mutate(DB, generate_access_token(u),
                                                         str(c.id))
                          r == CreateConversation_mutate(d.s, generate_access_token(u),
                                                         <<>>)
                      IN /\ d.success /\ d.error = ""
                         /\ r.error = "" /\ r.conversation # 0
                         /\ \E e \in r.s.conversations :
                               e.id = r.conversation /\ e.owner = u
            /\ \A c \in conversations :
                 (u \in c.members /\ c.owner # u) =>
                     LET without == [DB EXCEPT !.conversations = @ \ {c}]
                     IN /\ check_conversation_limits(DB, u).allowed
                             = check_conversation_limits(without, u).allowed
                        /\ check_conversation_limits(DB, u).remaining
                             = check_conversation_limits(without, u).remaining
                        /\ check_conversation_limits(DB, u).remaining
                             = p.max_conversations - Cardinality(Owned(u)) - 1

\* a user who owns the one conversation the plan allows, and is a member of
\* a conversation of another owner, is denied; a user below the limit who
\* is a member of that first conversation is allowed
C23_Witness ==
    \E u \in AllUsers : \E x \in subs : \E p \in plans : \E c \in conversations :
        /\ x.user = u /\ p.id = x.plan
        /\ p.max_conversations = 1 /\ Cardinality(Owned(u)) = 1
        /\ u \in c.members /\ c.owner # u
        /\ ~check_conversation_limits(DB, u).allowed
        /\ \E v \in AllUsers : \E d \in Owned(u) :
              /\ v # u /\ v \in d.members
              /\ check_conversation_limits(DB, v).allowed

\* the database after the owner's deleteConversation of each conversation
\* of the set D, one after the other
RECURSIVE DeleteEach(_, _, _)
DeleteEach(s, u, D) ==
    IF D = {} THEN s
    ELSE LET c == CHOOSE c \in D : TRUE
         IN DeleteEach(DeleteConversation_mutate(s, generate_access_token(u),
                                                 str(c.id)).s,
                       u, D \ {c})

\* C24: a plan change is guarded by nothing but "the target plan exists and
\* is active": change_user_plan to an active plan whose max_conversations
\* is smaller than the number of conversations the user owns returns true,
\* binds the subscription to that plan and leaves every conversation and
\* message as it is; from then on createConversation by that user is
\* denied, and after the user has deleted conversations it is allowed
\* exactly when the owned count is below the new max_conversations.
C24_DowngradeBelowUsage ==
    \A u \in AllUsers : \A plan_id \in PlanIdInputs : \A p \in plans :
        (/\ Names(plan_id, p) /\ p.is_active
         /\ p.max_conversations < Cardinality(Owned(u))) =>
            LET r == change_user_plan(DB, u, plan_id)
            IN /\ r.exc = "" /\ r.ret = TRUE
               /\ \E x \in r.s.subs : x.user = u /\ x.plan = p.id
               /\ r.s.conversations = conversations
               /\ r.s.messages = messages
               /\ r.s.conv_seq = conv_seq
               /\ \A member_ids \in MemberIdInputs :
                    LET c == CreateConversation_mutate(r.s, generate_access_token(u),
                                                       member_ids)
                    IN /\ c.error = "You have reached your maximum conversation limit."
                       /\ c.conversation = 0
                       /\ c.s = r.s
               /\ \A D \in SUBSET Owned(u) :
                    LET after == DeleteEach(r.s, u, D)
                        c == CreateConversation_mutate(after, generate_access_token(u),
                                                       <<>>)
                    IN /\ owned_conversations(after, u) = Owned(u) \ D
                       /\ (c.error = "")
                            <=> (Cardinality(Owned(u) \ D) < p.max_conversations)
                       /\ (c.error = "You have reached your maximum conversation limit.")
                            <=> (Cardinality(Owned(u) \ D) >= p.max_conversations)

\* a user who owns two conversations has moved to the plan of one, and the
\* bootstrap plan of three is there to move back to
C24_Witness ==
    \E u \in AllUsers : \E x \in subs : \E p \in plans :
        /\ x.user = u /\ p.id = x.plan
        /\ p.max_conversations = 1 /\ Cardinality(Owned(u)) = 2
        /\ change_user_plan(DB, u, str(p.id)).ret
        /\ CreateConversation_mutate(DB, generate_access_token(u), <<>>).error
             = "You have reached your maximum conversation limit."

\* the state s differs from the database by nothing but provisioning of
\* user u: the same rows everywhere, but for a subscription of u when u had
\* none, and for the bootstrap plan when no plan was flagged default
OnlyProvisions(s, u) ==
    IF \E x \in subs : x.user = u
    THEN s = DB
    ELSE /\ s = [DB EXCEPT !.subs = s.subs, !.plans = s.plans]
         /\ \E x \in s.subs :
               /\ x.user = u /\ x \notin subs /\ s.subs = subs \cup {x}
         /\ IF \E p \in plans : p.is_default
            THEN s.plans = plans
            ELSE \E i \in 1..(MaxPlans + 1) :
                    /\ ~\E p \in plans : p.id = i
                    /\ s.plans = plans \cup {BootstrapPlan(i)}

\* C25: check_message_limits and check_conversation_limits have no side
\* effects beyond provisioning: for a user who has a subscription they
\* leave plans, subscriptions, conversations and messages unchanged for
\* every input and every result, allowed or denied, and for a user without
\* one the only records they create are that user's subscription and, when
\* no plan is flagged default, the bootstrap default plan.
C25_ChecksOnlyProvision ==
    \A u \in AllUsers :
        /\ \A L \in MessageLengths :
             LET r == check_message_limits(DB, u, L)
             IN r.exc = "" /\ OnlyProvisions(r.s, u)
        /\ LET r == check_conversation_limits(DB, u)
           IN r.exc = "" /\ OnlyProvisions(r.s, u)

\* one user is on a plan an administrator created and is denied by both
\* checks, and another user has no subscription yet
C25_Witness ==
    /\ \E u \in AllUsers : ~\E x \in subs : x.user = u
    /\ \E u \in AllUsers : \E x \in subs : \E p \in plans :
          /\ x.user = u /\ p.id = x.plan /\ ~p.is_default
          /\ ~check_conversation_limits(DB, u).allowed
          /\ ~check_message_limits(DB, u, 2).allowed
          /\ check_message_limits(DB, u, 1).allowed

\* C26: a registered user stays inactive until email verification: a
\* successful register leaves the user inactive, the user becomes active in
\* no step but a successful verifyEmail with one of the user's tokens, and
\* while the user is inactive every operation that requires authentication
\* is refused to the user's access token and changes nothing, so that the
\* user owns no conversation and has sent no message.
C26_InactiveUntilVerified ==
    /\ [](\A user_name \in UserNameInputs : \A email \in EmailInputs :
            LET r == CreateUser_mutate(DB, now, user_name, email)
            IN r.error = "" =>
                 \E x \in r.s.users : x.id = r.user /\ ~x.is_active)
    /\ [](\A x \in users :
            /\ (/\ \E k \in tokens : k.user = x.id
                /\ \A k \in tokens : k.user = x.id => ~k.is_used) => ~x.is_active
            /\ ~x.is_active =>
                 /\ Owned(x.id) = {}
                 /\ ~\E m \in messages : m.sender = x.id
                 /\ \A r \in AnswersTo(generate_access_token(x.id)) :
                       r.error # "" /\ r.s = DB)
    /\ [][\A x \in users : \A y \in users' :
            (y.id = x.id /\ ~x.is_active /\ y.is_active) =>
                \E k \in tokens :
                    LET v == VerifyEmail_mutate(DB, now, uuid_str(k.token))
                    IN /\ k.user = x.id /\ ~k.is_used /\ now <= k.expires_at
                       /\ v.success /\ v.user = x.id
                       /\ DB' = v.s]_vars

\* a registered user who has not verified is a member of a conversation
\* that holds a message, owns nothing, and is refused createConversation
\* and sendMessage
C26_Witness ==
    \E x \in users : \E k \in tokens : \E c \in conversations : \E m \in messages :
        /\ ~x.is_active /\ k.user = x.id /\ ~k.is_used
        /\ x.id \in c.members /\ m.conversation = c.id
        /\ CreateConversation_mutate(DB, generate_access_token(x.id), <<>>).error
             = "Account is not active. Please verify your email first."
        /\ SendMessage_mutate(DB, generate_access_token(x.id), str(c.id), "a").error
             = "Account is not active. Please verify your email first."

\* C27: the owner of a conversation is always one of its members: in every
\* state reached by createConversation, addUserToConversation, sendMessage
\* and deleteConversation requests, every conversation has its owner among
\* its members, also the conversation left behind by a createConversation
\* that a malformed member id ended, and the sender of every message is a
\* member of the message's conversation, which exists.
C27_OwnerIsMember ==
    /\ \A c \in conversations : c.owner \in c.members
    /\ \A m \in messages :
          \E c \in conversations : c.id = m.conversation /\ m.sender \in c.members
    /\ \A u \in AllUsers : \A member_ids \in MemberIdInputs :
          LET r == CreateConversation_mutate(DB, generate_access_token(u), member_ids)
          IN \A c \in r.s.conversations : c.owner \in c.members

\* a conversation has been deleted, and the one there is has a member
\* besides its owner and holds a message of the owner
C27_Witness ==
    /\ conv_seq > Cardinality(conversations)
    /\ \E c \in conversations : \E m \in messages :
          /\ Cardinality(c.members) = 2
          /\ m.conversation = c.id /\ m.sender = c.owner

\* C28: a newly provisioned subscription is always bound to an active
\* plan: for every state of the plan store, including one where the plan
\* flagged is_default has is_active = false, get_or_create_user_subscription
\* for a user without a subscription binds the new subscription to a plan
\* whose is_active is true.
C28_ProvisionedOnActivePlan ==
    \A u \in AllUsers :
        (~\E x \in subs : x.user = u) =>
            LET r == get_or_create_user_subscription(DB, u)
            IN /\ r.exc = ""
               /\ \E x \in r.s.subs : \E p \in r.s.plans :
                     x.id = r.sub /\ x.user = u /\ p.id = x.plan /\ p.is_active

\* C29 as stated: a successful plan change touches only the caller's
\* subscription: change_user_plan with the id of an active plan leaves the
\* set of plans and every other user's subscription unchanged, also when
\* the user has no subscription yet and no plan is flagged default.
C29_AsStated ==
    \A u \in AllUsers : \A plan_id \in PlanIdInputs : \A p \in plans :
        (Names(plan_id, p) /\ p.is_active) =>
            LET r == change_user_plan(DB, u, plan_id)
            IN /\ r.ret
               /\ r.s.plans = plans
               /\ {x \in r.s.subs : x.user # u} = {x \in subs : x.user # u}

\* C29, amended: a successful plan change touches only the caller's
\* subscription and, for provisioning, the plan table: change_user_plan
\* with the id of an active plan leaves every other user's subscription,
\* the users, the conversations and the messages unchanged, and leaves the
\* set of plans unchanged unless the user has no subscription yet and no
\* plan is flagged default, in which case exactly the bootstrap default
\* plan is added.
C29_PlanChangeFrame ==
    \A u \in AllUsers : \A plan_id \in PlanIdInputs : \A p \in plans :
        (Names(plan_id, p) /\ p.is_active) =>
            LET r == change_user_plan(DB, u, plan_id)
            IN /\ r.ret /\ r.exc = ""
               /\ {x \in r.s.subs : x.user # u} = {x \in subs : x.user # u}
               /\ \E x \in r.s.subs :
                     /\ x.user = u /\ x.plan = p.id
                     /\ \A y \in r.s.subs : y.user = u => y = x
               /\ r.s = [DB EXCEPT !.subs = r.s.subs, !.plans = r.s.plans]
               /\ IF (\E x \in subs : x.user = u) \/ (\E q \in plans : q.is_default)
                  THEN r.s.plans = plans
                  ELSE \E i \in 1..(MaxPlans + 1) :
                          /\ ~\E q \in plans : q.id = i
                          /\ r.s.plans = plans \cup {BootstrapPlan(i)}

\* no plan is flagged default and no user is subscribed; the change of a
\* user to the plan an administrator created succeeds and adds the
\* bootstrap plan
C29_Witness ==
    \E u \in AllUsers : \E p \in plans :
        /\ ~\E x \in subs : x.user = u
        /\ ~\E q \in plans : q.is_default
        /\ p.is_active
        /\ change_user_plan(DB, u, str(p.id)).ret
        /\ \E q \in change_user_plan(DB, u, str(p.id)).s.plans :
              q \notin plans /\ q.is_default /\ q.name = "Free"

\* C30: a verification token is single-use under concurrency: of the
\* verifyEmail requests that carry one valid token and run concurrently, at
\* most one returns success = true with access and refresh tokens.
C30_SingleUseUnderConcurrency ==
    \A p \in 1..NumProcs : \A q \in 1..NumProcs :
        (p # q /\ inflight[p].pc = "success" /\ inflight[q].pc = "success") =>
            inflight[p].verification_token.id # inflight[q].verification_token.id

====
